---------------------------- MODULE Spec2Model ----------------------------
(***************************************************************************)
(* A model of the iCalendar codec of pipobscure/ical:                      *)
(*   - the property store of Component (src/src/component.ts),             *)
(*   - tree assembly and parse / parseAll (src/src/parse.ts),              *)
(*   - parseProperty and the value codecs it calls (src/src/property.ts,   *)
(*     src/src/value-types.ts, the property registry),                     *)
(*   - line folding (foldLine, src/src/component.ts), unfold, tokenize and *)
(*     parseContentLine (src/src/parse.ts),                                *)
(*   - the value serializers and their round trips through the parsers     *)
(*     (src/src/value-types.ts).                                           *)
(* JavaScript strings are TLA+ strings; a character is a string of length  *)
(* one and s.slice(a, b) is SubSeq(s, a + 1, b).                           *)
(***************************************************************************)
EXTENDS Integers, Sequences, FiniteSets, TLC

VARIABLES
    \* --- Component property store -------------------------------------
    props,      \* Component._props : ordered list of Property objects
    index,      \* Component._index : Map name -> list of Property objects
    nextId,     \* identity of the next Property object to be constructed
    last,       \* observation: the last call, its arguments and the state before it
    run,        \* observation: the current run of consecutive add/append calls
    \* --- parse / parseAll ----------------------------------------------
    api,        \* the entry point called: "parse" or "parseAll"
    tokens,     \* buildTree: the ContentLine list tokenize(src) returned
    pos,        \* buildTree: position of the for-of loop in tokens
    nodes,      \* buildTree: the RawNode objects allocated so far (1 is root)
    stack,      \* buildTree: the stack of open RawNodes
    pc,         \* "idle", "tree" (inside buildTree's loop) or "done"
    result,     \* the Calendar list returned (parse returns its only entry)
    raised,     \* the call ended by an exception instead of returning
    \* --- foldLine -------------------------------------------------------
    line,       \* foldLine: its argument, a string as a list of UTF-16 code units
    folded,     \* foldLine: the string it returned
    fpc,        \* "idle", "call" (foldLine entered), "ret" (foldLine returned)
                \* or "unfolded" (unfold has run on what foldLine returned)
    unfolded,   \* unfold: the string it returned
    \* --- tokenize / parseContentLine --------------------------------------
    doc,        \* the logical document: its lines and the separators between them
    src,        \* the text handed to tokenize, or the line handed to parseContentLine
    lexed,      \* the ContentLine list returned (parseContentLine: one or none)
    tpc,        \* "idle", "tokenize", "line" (the call entered) or "ret"
    \* --- value codecs: two calls in a row --------------------------------
    kind,       \* the codec called: "none", "TEXT", "DATE", ... "RECUR"
    arg,        \* the argument of the first call
    mid,        \* what the first call returned, the argument of the second
    ret,        \* what the second call returned
    cpc         \* "idle", "serialize", "parse" (the next call) or "done"

compVars == <<props, index, nextId, last, run>>

parseVars == <<api, tokens, pos, nodes, stack, pc, result, raised>>

foldVars == <<line, folded, fpc, unfolded>>

tokVars == <<doc, src, lexed, tpc>>

codecVars == <<kind, arg, mid, ret, cpc>>

vars == <<props, index, nextId, last, run,
          api, tokens, pos, nodes, stack, pc, result, raised,
          line, folded, fpc, unfolded,
          doc, src, lexed, tpc,
          kind, arg, mid, ret, cpc>>

-----------------------------------------------------------------------------
(* Bounds *)

MaxOps == 4

MaxTokens == 3

MaxLead == 5

MaxTail == 2

MaxLines == 3

MaxParams == 2

MaxText == 3

MaxPairs == 3

-----------------------------------------------------------------------------
(* String helpers: what the JavaScript string methods used by the code do *)

LowerAlphabet == "abcdefghijklmnopqrstuvwxyz"
UpperAlphabet == "ABCDEFGHIJKLMNOPQRSTUVWXYZ"

CharAt(s, i) == SubSeq(s, i, i)

UpperChar(c) ==
    IF \E i \in 1..26 : CharAt(LowerAlphabet, i) = c
    THEN LET i == CHOOSE j \in 1..26 : CharAt(LowerAlphabet, j) = c
         IN  CharAt(UpperAlphabet, i)
    ELSE c

RECURSIVE ToUpper(_)
ToUpper(s) ==
    IF Len(s) = 0 THEN s
    ELSE UpperChar(CharAt(s, 1)) \o ToUpper(Tail(s))

\* String.prototype.trim: the white space that can occur in a content line
IsSpace(c) == c \in {" ", "\t", "\n", "\r"}

RECURSIVE TrimStart(_)
TrimStart(s) ==
    IF Len(s) > 0 /\ IsSpace(CharAt(s, 1)) THEN TrimStart(Tail(s)) ELSE s

RECURSIVE TrimEnd(_)
TrimEnd(s) ==
    IF Len(s) > 0 /\ IsSpace(CharAt(s, Len(s)))
    THEN TrimEnd(SubSeq(s, 1, Len(s) - 1))
    ELSE s

Trim(s) == TrimEnd(TrimStart(s))

Min(a, b) == IF a < b THEN a ELSE b

\* s.slice(a, b) for 0 <= a, 0 <= b (indices beyond the end are clamped)
Slice(s, a, b) ==
    IF a >= Min(b, Len(s)) THEN "" ELSE SubSeq(s, a + 1, Min(b, Len(s)))

\* s.slice(a)
SliceFrom(s, a) == Slice(s, a, Len(s))

\* s.indexOf(c) for a single character c: 0-based, -1 when absent
IndexOf(s, c) ==
    IF \E i \in 1..Len(s) : CharAt(s, i) = c
    THEN (CHOOSE i \in 1..Len(s) :
            /\ CharAt(s, i) = c
            /\ \A j \in 1..(i - 1) : CharAt(s, j) # c) - 1
    ELSE -1

Includes(s, c) == IndexOf(s, c) # -1

StartsWith(s, p) == Len(s) >= Len(p) /\ SubSeq(s, 1, Len(p)) = p

EndsWith(s, p) == Len(s) >= Len(p) /\ SubSeq(s, Len(s) - Len(p) + 1, Len(s)) = p

RECURSIVE Split(_, _)
\* s.split(c) for a single character c
Split(s, c) ==
    LET i == IndexOf(s, c)
    IN  IF i = -1 THEN <<s>>
        ELSE <<Slice(s, 0, i)>> \o Split(SliceFrom(s, i + 1), c)

RECURSIVE Join(_, _)
\* parts.join(sep)
Join(parts, sep) ==
    IF Len(parts) = 0 THEN ""
    ELSE IF Len(parts) = 1 THEN parts[1]
    ELSE parts[1] \o sep \o Join(Tail(parts), sep)

RECURSIVE ReplaceAll2(_, _, _)
\* s.replace(/xy/g, rep) for a pattern of two characters: pats is the set of
\* two-character strings the pattern matches, scanned left to right
ReplaceAll2(s, pats, rep) ==
    IF Len(s) = 0 THEN s
    ELSE IF Len(s) >= 2 /\ SubSeq(s, 1, 2) \in pats
         THEN rep \o ReplaceAll2(SubSeq(s, 3, Len(s)), pats, rep)
         ELSE CharAt(s, 1) \o ReplaceAll2(Tail(s), pats, rep)

RECURSIVE ReplaceAll1(_, _, _)
\* s.replace(/x/g, rep) for a pattern of one character: pats is the set of
\* one-character strings the pattern matches
ReplaceAll1(s, pats, rep) ==
    IF Len(s) = 0 THEN s
    ELSE (IF CharAt(s, 1) \in pats THEN rep ELSE CharAt(s, 1))
         \o ReplaceAll1(Tail(s), pats, rep)

Digits == "0123456789"

IsDigit(c) == \E i \in 1..10 : CharAt(Digits, i) = c

DigitVal(c) == (CHOOSE i \in 1..10 : CharAt(Digits, i) = c) - 1

RECURSIVE DigitRunLen(_)
\* the length of the longest prefix of s made of decimal digits
DigitRunLen(s) ==
    IF Len(s) > 0 /\ IsDigit(CharAt(s, 1)) THEN 1 + DigitRunLen(Tail(s)) ELSE 0

RECURSIVE DigitsValue(_)
\* the value of a non-empty string of decimal digits
DigitsValue(s) ==
    IF Len(s) = 0 THEN 0
    ELSE 10 * DigitsValue(SubSeq(s, 1, Len(s) - 1)) + DigitVal(CharAt(s, Len(s)))

\* JavaScript values: a number is [num, nan], a string [str], a boolean
\* [bool], undefined [undef]; the structured values carry a type field
Num(n) == [num |-> n, nan |-> FALSE]
NaN == [num |-> 0, nan |-> TRUE]
Str(s) == [str |-> s]
Bool(b) == [bool |-> b]
Undefined == [undef |-> TRUE]

\* parseInt(s, 10): leading white space, an optional sign, then the longest
\* run of digits; NaN when there is no digit
ParseInt(s) ==
    LET OfDigits(neg, body, n) ==
            IF n = 0 THEN NaN
            ELSE Num((IF neg THEN -1 ELSE 1) * DigitsValue(SubSeq(body, 1, n)))
        OfBody(neg, body) == OfDigits(neg, body, DigitRunLen(body))
        OfTrimmed(t) ==
            OfBody(Len(t) > 0 /\ CharAt(t, 1) = "-",
                   IF Len(t) > 0 /\ CharAt(t, 1) \in {"-", "+"} THEN Tail(t) ELSE t)
    IN  OfTrimmed(TrimStart(s))

\* Map.prototype.get(key) ?? []
MapGetOrEmpty(m, key) == IF key \in DOMAIN m THEN m[key] ELSE <<>>

\* Map.prototype.delete(key)
MapDelete(m, key) == [k \in (DOMAIN m) \ {key} |-> m[k]]

\* Map.prototype.set(key, v)
MapSet(m, key, v) == [k \in (DOMAIN m) \cup {key} |-> IF k = key THEN v ELSE m[k]]

\* Array.prototype.findIndex, 1-based; 0 stands for the code's -1
FindIndexByName(s, key) ==
    IF \E i \in 1..Len(s) : s[i].name = key
    THEN CHOOSE i \in 1..Len(s) :
            /\ s[i].name = key
            /\ \A j \in 1..(i - 1) : s[j].name # key
    ELSE 0

\* Array.prototype.splice(at, 1) on a 1-based position
RemoveAt(s, i) == SubSeq(s, 1, i - 1) \o SubSeq(s, i + 1, Len(s))

\* Array.prototype.splice(at, 0, x): x ends up at 1-based position i
InsertBefore(s, i, x) == SubSeq(s, 1, i - 1) \o <<x>> \o SubSeq(s, i, Len(s))

-----------------------------------------------------------------------------
(* Property (src/src/property.ts) *)

\* new Property(name, value, params, rawValue); id is the object's identity
Property(id, name, value, params, rawValue) ==
    [id |-> id, name |-> ToUpper(name), value |-> value,
     params |-> params, rawValue |-> rawValue]

NoParams == <<>>

-----------------------------------------------------------------------------
(* Value codecs (src/src/value-types.ts).  parse yields an outcome: ok with *)
(* the typed value, or a thrown Error.                                      *)

Ok(v) == [ok |-> TRUE, v |-> v]
Thrown == [ok |-> FALSE, v |-> Undefined]

List(xs) == [list |-> xs]

\* params[key] of a Record<string, string | string[]>: the string, the list
\* of strings, or undefined; an entry holds a string as v and a list as vals
ParamGet(params, key) ==
    LET OfEntry(e) == IF "vals" \in DOMAIN e THEN List(e.vals) ELSE Str(e.v)
    IN  IF \E i \in 1..Len(params) : params[i].k = key
        THEN OfEntry(params[CHOOSE i \in 1..Len(params) : params[i].k = key])
        ELSE Undefined

TEXT_parse(raw) ==
    LET a == ReplaceAll2(raw, {"\\n", "\\N"}, "\n")
        b == ReplaceAll2(a, {"\\,"}, ",")
        c == ReplaceAll2(b, {"\\;"}, ";")
        d == ReplaceAll2(c, {"\\\\"}, "\\")
    IN  Str(d)

BOOLEAN_parse(raw) == Bool(ToUpper(Trim(raw)) = "TRUE")

INTEGER_parse(raw) == ParseInt(Trim(raw))

URI_parse(raw) == Str(Trim(raw))

UTC_OFFSET_parse(raw) ==
    LET OfTrimmed(s) ==
            [type    |-> "utc-offset",
             sign    |-> IF Slice(s, 0, 1) = "-" THEN "-" ELSE "+",
             hours   |-> ParseInt(Slice(s, 1, 3)),
             minutes |-> ParseInt(Slice(s, 3, 5)),
             seconds |-> IF Len(s) >= 7 THEN ParseInt(Slice(s, 5, 7)) ELSE Undefined]
    IN  OfTrimmed(Trim(raw))

DATE_parse(raw) ==
    LET OfTrimmed(s) ==
            [type  |-> "date",
             year  |-> ParseInt(Slice(s, 0, 4)),
             month |-> ParseInt(Slice(s, 4, 6)),
             day   |-> ParseInt(Slice(s, 6, 8))]
    IN  OfTrimmed(Trim(raw))

\* const utc = s.endsWith('Z'); const core = utc ? s.slice(0, -1) : s
StripZ(s) == IF EndsWith(s, "Z") THEN Slice(s, 0, Len(s) - 1) ELSE s

\* params is the parameter record, or <<>> when the caller passes none
DATE_TIME_parse(raw, params) ==
    LET OfCore(core, utc) ==
            [type   |-> "date-time",
             year   |-> ParseInt(Slice(core, 0, 4)),
             month  |-> ParseInt(Slice(core, 4, 6)),
             day    |-> ParseInt(Slice(core, 6, 8)),
             hour   |-> ParseInt(Slice(core, 9, 11)),
             minute |-> ParseInt(Slice(core, 11, 13)),
             second |-> ParseInt(Slice(core, 13, 15)),
             utc    |-> utc,
             tzid   |-> ParamGet(params, "TZID")]
        OfTrimmed(s) == OfCore(StripZ(s), EndsWith(s, "Z"))
    IN  OfTrimmed(Trim(raw))

TIME_parse(raw) ==
    LET OfCore(core, utc) ==
            [type   |-> "time",
             hour   |-> ParseInt(Slice(core, 0, 2)),
             minute |-> ParseInt(Slice(core, 2, 4)),
             second |-> ParseInt(Slice(core, 4, 6)),
             utc    |-> utc]
        OfTrimmed(s) == OfCore(StripZ(s), EndsWith(s, "Z"))
    IN  OfTrimmed(Trim(raw))

RECURSIVE MatchUnit(_, _)
\* s.match(/(\d+)U/) for a unit letter U: the number of the leftmost run of
\* digits that is directly followed by U, or undefined without a match
MatchUnit(s, u) ==
    IF Len(s) = 0 THEN Undefined
    ELSE LET n == DigitRunLen(s)
         IN  IF n = 0 THEN MatchUnit(Tail(s), u)
             ELSE IF Len(s) > n /\ CharAt(s, n + 1) = u
                  THEN Num(DigitsValue(SubSeq(s, 1, n)))
                  ELSE MatchUnit(SubSeq(s, n + 1, Len(s)), u)

Duration(negative, weeks, days, hours, minutes, seconds) ==
    [type |-> "duration", negative |-> negative, weeks |-> weeks, days |-> days,
     hours |-> hours, minutes |-> minutes, seconds |-> seconds]

DURATION_parse(raw) ==
    LET OfTime(negative, body, tIdx, timePart) ==
            Duration(negative, Undefined, MatchUnit(body, "D"),
                     IF tIdx # -1 THEN MatchUnit(timePart, "H") ELSE Undefined,
                     IF tIdx # -1 THEN MatchUnit(timePart, "M") ELSE Undefined,
                     IF tIdx # -1 THEN MatchUnit(timePart, "S") ELSE Undefined)
        OfBody(negative, str, body, n, tIdx) ==
            IF ~StartsWith(str, "P")
            THEN Duration(negative, Undefined, Num(0), Undefined, Undefined, Undefined)
            ELSE IF n > 0 /\ SubSeq(body, n + 1, Len(body)) = "W"
            THEN Duration(negative, Num(DigitsValue(SubSeq(body, 1, n))),
                          Undefined, Undefined, Undefined, Undefined)
            ELSE OfTime(negative, body, tIdx, SliceFrom(body, tIdx + 1))
        OfStr(negative, str, body) ==
            OfBody(negative, str, body, DigitRunLen(body), IndexOf(body, "T"))
        OfUnsigned(negative, str) == OfStr(negative, str, SliceFrom(str, 1))
        OfTrimmed(s) ==
            OfUnsigned(StartsWith(s, "-"),
                       IF Len(s) > 0 /\ CharAt(s, 1) \in {"+", "-"} THEN Tail(s) ELSE s)
    IN  OfTrimmed(Trim(raw))

PERIOD_parse(raw) ==
    LET OfEnd(slashIdx, endStr) ==
            Ok([type  |-> "period",
                start |-> DATE_TIME_parse(Slice(raw, 0, slashIdx), <<>>),
                end   |-> IF StartsWith(endStr, "P") \/ StartsWith(endStr, "-P")
                             \/ StartsWith(endStr, "+P")
                          THEN DURATION_parse(endStr)
                          ELSE DATE_TIME_parse(endStr, <<>>)])
        OfSlash(slashIdx) ==
            IF slashIdx = -1 THEN Thrown
            ELSE OfEnd(slashIdx, Trim(SliceFrom(raw, slashIdx + 1)))
    IN  OfSlash(IndexOf(raw, "/"))

VALID_FREQS == {"SECONDLY", "MINUTELY", "HOURLY", "DAILY", "WEEKLY", "MONTHLY", "YEARLY"}

VALID_WEEKDAYS == {"SU", "MO", "TU", "WE", "TH", "FR", "SA"}

\* one entry of parseByDay: /^([+-]?\d+)?(SU|MO|TU|WE|TH|FR|SA)$/i on s.trim()
parseByDayEntry(entry) ==
    LET OfMatch(s, sgn, n, wd) ==
            IF wd \in VALID_WEEKDAYS /\ (sgn => n > 0)
            THEN [day |-> wd,
                  ordwk |-> IF n > 0 THEN ParseInt(SubSeq(s, 1, Len(s) - 2))
                            ELSE Undefined]
            ELSE [day |-> "MO", ordwk |-> Undefined]
        OfDigits(s, sgn, rest, n) ==
            OfMatch(s, sgn, n, ToUpper(SubSeq(rest, n + 1, Len(rest))))
        OfRest(s, sgn, rest) == OfDigits(s, sgn, rest, DigitRunLen(rest))
        OfSign(s, sgn) == OfRest(s, sgn, IF sgn THEN Tail(s) ELSE s)
        OfTrimmed(s) == OfSign(s, Len(s) > 0 /\ CharAt(s, 1) \in {"+", "-"})
    IN  OfTrimmed(Trim(entry))

parseByDay(raw) ==
    LET OfParts(parts) == List([i \in 1..Len(parts) |-> parseByDayEntry(parts[i])])
    IN  OfParts(Split(raw, ","))

\* Number(s) on the decimal integer literals that occur in BYxxx lists: ""
\* is 0, an optionally signed run of digits is its value, anything else NaN
JSNumber(s) ==
    LET OfBody(t, body) ==
            IF Len(t) = 0 THEN Num(0)
            ELSE IF Len(body) > 0 /\ DigitRunLen(body) = Len(body) THEN ParseInt(t)
            ELSE NaN
        OfTrimmed(t) ==
            OfBody(t, IF Len(t) > 0 /\ CharAt(t, 1) \in {"+", "-"} THEN Tail(t) ELSE t)
    IN  OfTrimmed(Trim(s))

RECURSIVE RecurMap(_)
\* the KEY -> value map RECUR.parse builds from the ';'-separated parts; a
\* later part overrides an earlier one with the same key
RecurMap(parts) ==
    IF Len(parts) = 0 THEN <<>>
    ELSE LET OfPart(before, part, eq) ==
                 IF eq = -1 THEN before
                 ELSE MapSet(before, ToUpper(Slice(part, 0, eq)), SliceFrom(part, eq + 1))
         IN  OfPart(RecurMap(SubSeq(parts, 1, Len(parts) - 1)),
                    parts[Len(parts)], IndexOf(parts[Len(parts)], "="))

RecurHas(map, k) == k \in DOMAIN map

\* map[k] is truthy: present and not the empty string
RecurTruthy(map, k) == k \in DOMAIN map /\ Len(map[k]) > 0

RecurInts(map, k) ==
    IF RecurHas(map, k)
    THEN LET OfParts(parts) == List([i \in 1..Len(parts) |-> JSNumber(parts[i])])
         IN  OfParts(Split(map[k], ","))
    ELSE Undefined

AnyFreq(freqStr) == TRUE

\* RECUR.parse lines 395-398: the frequency is accepted
ValidFreq(freqStr) == freqStr \in VALID_FREQS

RecurRule(map, freqStr) ==
        IF ~ValidFreq(freqStr) THEN Thrown
        ELSE Ok([type       |-> "recur",
                 freq       |-> freqStr,
                 until      |-> IF RecurTruthy(map, "UNTIL")
                                THEN (IF Includes(map["UNTIL"], "T")
                                      THEN DATE_TIME_parse(map["UNTIL"], <<>>)
                                      ELSE DATE_parse(map["UNTIL"]))
                                ELSE Undefined,
                 count      |-> IF RecurHas(map, "COUNT")
                                THEN ParseInt(map["COUNT"]) ELSE Undefined,
                 interval   |-> IF RecurHas(map, "INTERVAL")
                                THEN ParseInt(map["INTERVAL"]) ELSE Undefined,
                 bysecond   |-> RecurInts(map, "BYSECOND"),
                 byminute   |-> RecurInts(map, "BYMINUTE"),
                 byhour     |-> RecurInts(map, "BYHOUR"),
                 byday      |-> IF RecurTruthy(map, "BYDAY")
                                THEN parseByDay(map["BYDAY"]) ELSE Undefined,
                 bymonthday |-> RecurInts(map, "BYMONTHDAY"),
                 byyearday  |-> RecurInts(map, "BYYEARDAY"),
                 byweekno   |-> RecurInts(map, "BYWEEKNO"),
                 bymonth    |-> RecurInts(map, "BYMONTH"),
                 bysetpos   |-> RecurInts(map, "BYSETPOS"),
                 wkst       |-> IF RecurHas(map, "WKST")
                                   /\ ToUpper(map["WKST"]) \in VALID_WEEKDAYS
                                THEN Str(ToUpper(map["WKST"])) ELSE Undefined])

RecurFirstPartOnly(raw) == <<Head(Split(Trim(raw), ";"))>>

\* const parts = raw.trim().split(';')
RecurParts(raw) == Split(Trim(raw), ";")

RECUR_parse(raw) ==
    LET OfMap(map) ==
            RecurRule(map, ToUpper(IF RecurHas(map, "FREQ") THEN map["FREQ"] ELSE ""))
    IN  OfMap(RecurMap(RecurParts(raw)))

\* the type names CODECS has an entry for and this model computes
CodecNames ==
    {"TEXT", "BOOLEAN", "INTEGER", "URI", "CAL-ADDRESS", "UTC-OFFSET", "DATE",
     "DATE-TIME", "TIME", "DURATION", "PERIOD", "RECUR"}

\* CODECS[typeName].parse(raw, params)
CodecParse(typeName, raw, params) ==
    CASE typeName = "TEXT"        -> Ok(TEXT_parse(raw))
      [] typeName = "BOOLEAN"     -> Ok(BOOLEAN_parse(raw))
      [] typeName = "INTEGER"     -> Ok(INTEGER_parse(raw))
      [] typeName = "URI"         -> Ok(URI_parse(raw))
      [] typeName = "CAL-ADDRESS" -> Ok(URI_parse(raw))
      [] typeName = "UTC-OFFSET"  -> Ok(UTC_OFFSET_parse(raw))
      [] typeName = "DATE"        -> Ok(DATE_parse(raw))
      [] typeName = "DATE-TIME"   -> Ok(DATE_TIME_parse(raw, params))
      [] typeName = "TIME"        -> Ok(TIME_parse(raw))
      [] typeName = "DURATION"    -> Ok(DURATION_parse(raw))
      [] typeName = "PERIOD"      -> PERIOD_parse(raw)
      [] typeName = "RECUR"       -> RECUR_parse(raw)

-----------------------------------------------------------------------------
(* Property registry (property-registry.ts, src/unnamed/part_003) *)

RegistryTyped(t) == [defaultType |-> t, multi |-> FALSE]

RegistryMulti(t) == [defaultType |-> t, multi |-> TRUE]

PROPERTY_REGISTRY ==
    [n \in {"CALSCALE", "METHOD", "PRODID", "VERSION", "CLASS", "COMMENT",
            "DESCRIPTION", "LOCATION", "STATUS", "SUMMARY", "TRANSP", "TZID",
            "TZNAME", "CONTACT", "RELATED-TO", "UID", "ACTION",
            "REQUEST-STATUS"} |-> RegistryTyped("TEXT")]
    @@ [n \in {"CATEGORIES", "RESOURCES"} |-> RegistryMulti("TEXT")]
    @@ [n \in {"ATTACH", "TZURL", "URL"} |-> RegistryTyped("URI")]
    @@ [n \in {"GEO"} |-> RegistryTyped("GEO")]
    @@ [n \in {"PERCENT-COMPLETE", "PRIORITY", "REPEAT", "SEQUENCE"} |->
            RegistryTyped("INTEGER")]
    @@ [n \in {"COMPLETED", "DTEND", "DUE", "DTSTART", "RECURRENCE-ID", "CREATED",
               "DTSTAMP", "LAST-MODIFIED"} |-> RegistryTyped("DATE-TIME")]
    @@ [n \in {"EXDATE", "RDATE"} |-> RegistryMulti("DATE-TIME")]
    @@ [n \in {"DURATION", "TRIGGER"} |-> RegistryTyped("DURATION")]
    @@ [n \in {"FREEBUSY"} |-> RegistryMulti("PERIOD")]
    @@ [n \in {"TZOFFSETFROM", "TZOFFSETTO"} |-> RegistryTyped("UTC-OFFSET")]
    @@ [n \in {"ATTENDEE", "ORGANIZER"} |-> RegistryTyped("CAL-ADDRESS")]
    @@ [n \in {"RRULE", "EXRULE"} |-> RegistryTyped("RECUR")]

\* getPropertyDef(name)?.multi
IsMulti(name) == name \in DOMAIN PROPERTY_REGISTRY /\ PROPERTY_REGISTRY[name].multi

resolveValueType(name, params) ==
    LET p        == ParamGet(params, "VALUE")
        override == IF "str" \in DOMAIN p THEN ToUpper(p.str) ELSE ""
    IN  IF Len(override) > 0 THEN override
        ELSE IF name \in DOMAIN PROPERTY_REGISTRY
             THEN PROPERTY_REGISTRY[name].defaultType
             ELSE "TEXT"

-----------------------------------------------------------------------------
(* parseProperty (src/src/property.ts) *)

RECURSIVE splitMultiValueFrom(_, _)
\* the loop of splitMultiValue over the rest of raw, current being the part
\* collected so far
splitMultiValueFrom(raw, current) ==
    IF Len(raw) = 0 THEN <<current>>
    ELSE IF CharAt(raw, 1) = "\\" /\ Len(raw) > 1
         THEN splitMultiValueFrom(SubSeq(raw, 3, Len(raw)), current \o SubSeq(raw, 1, 2))
         ELSE IF CharAt(raw, 1) = ","
              THEN <<current>> \o splitMultiValueFrom(Tail(raw), "")
              ELSE splitMultiValueFrom(Tail(raw), current \o CharAt(raw, 1))

\* a split at every comma, escaped or not
SplitEveryComma(raw) == Split(raw, ",")

splitMultiValue(raw) == splitMultiValueFrom(raw, "")

\* CODECS[typeName] ?? CODECS['TEXT'].  FLOAT and BINARY (and GEO, which
\* parseProperty dispatches before the lookup) compute on floating point
\* numbers and byte buffers; no input enumerated here selects them.
CodecFor(typeName) ==
    IF typeName \in CodecNames \cup {"FLOAT", "BINARY", "GEO"} THEN typeName ELSE "TEXT"

\* an outcome of parseProperty: the Property returned, or an exception
Returned(prop) == [threw |-> FALSE, prop |-> prop]

Rethrow(name, rawValue, params) ==
    [threw |-> TRUE, prop |-> Property(0, name, Str(rawValue), params, rawValue)]

CatchStoresUnescaped(name, rawValue, params) ==
    Returned(Property(0, name, TEXT_parse(rawValue), params, rawValue))

\* the catch block of parseProperty: store the raw string as the value
CatchFallback(name, rawValue, params) ==
    Returned(Property(0, name, Str(rawValue), params, rawValue))

\* raws are the strings handed to the codec: the parts of a multi-value
\* property, else the whole raw value; items are the codec's outcomes
parseProperty(name, rawValue, params) ==
    LET OfItems(items) ==
            IF \A i \in 1..Len(items) : items[i].ok
            THEN Returned(Property(0, name,
                                   IF IsMulti(name)
                                   THEN List([i \in 1..Len(items) |-> items[i].v])
                                   ELSE items[1].v,
                                   params, rawValue))
            ELSE CatchFallback(name, rawValue, params)
        OfRaws(codec, raws) ==
            OfItems([i \in 1..Len(raws) |-> CodecParse(codec, raws[i], params)])
    IN  OfRaws(CodecFor(resolveValueType(name, params)),
               IF IsMulti(name) THEN splitMultiValue(rawValue) ELSE <<rawValue>>)

-----------------------------------------------------------------------------
(* Component property store (src/src/component.ts) *)

getProperties(c, name) == MapGetOrEmpty(c.index, ToUpper(name))

IndexAddDedup(m, prop) == MapSet(m, prop.name, <<prop>>)

\* addProperty, the index half: push onto the existing list or create one
IndexAdd(m, prop) ==
    IF prop.name \in DOMAIN m
    THEN MapSet(m, prop.name, Append(m[prop.name], prop))
    ELSE MapSet(m, prop.name, <<prop>>)

addProperty(c, prop) ==
    [props |-> Append(c.props, prop), index |-> IndexAdd(c.index, prop)]

appendProperty(c, id, name, value, params) ==
    addProperty(c, Property(id, ToUpper(name), value, params, ""))

InsertAtEnd(idx, lenAfterRemoval) == lenAfterRemoval + 1

\* setProperty line 141: the 1-based position the new Property is spliced in
\* at; idx is the 1-based findIndex result (0 when absent)
InsertAt(idx, lenAfterRemoval) ==
    IF idx # 0 /\ idx - 1 < lenAfterRemoval THEN idx ELSE lenAfterRemoval + 1

\* value = [present |-> BOOLEAN, v |-> ...]; present = FALSE is null/undefined
setProperty(c, id, name, value, params) ==
    LET key      == ToUpper(name)
        idx      == FindIndexByName(c.props, key)
        removed  == IF idx # 0 THEN RemoveAt(c.props, idx) ELSE c.props
        deleted  == MapDelete(c.index, key)
    IN  IF ~value.present
        THEN [props |-> removed, index |-> deleted]
        ELSE LET prop == Property(id, key, value.v, params, "")
             IN  [props |-> InsertBefore(removed, InsertAt(idx, Len(removed)), prop),
                  index |-> MapSet(deleted, key, <<prop>>)]

removeProperty(c, name) ==
    LET key == ToUpper(name)
    IN  [props |-> SelectSeq(c.props, LAMBDA p : p.name # key),
         index |-> MapDelete(c.index, key)]

-----------------------------------------------------------------------------
(* The component under test and the calls made on it *)

Component == [props |-> props, index |-> index]

\* names and values the callers pass; "uid" exercises name.toUpperCase()
CallNames == {"uid", "ATTENDEE"}
CallValues == {"a", "b"}
NullValue == [present |-> FALSE, v |-> Undefined]
SetValues == {NullValue} \cup {[present |-> TRUE, v |-> Str(x)] : x \in CallValues}

NoCall == [op |-> "none", key |-> "", present |-> FALSE, id |-> 0,
           pre |-> [props |-> <<>>, index |-> <<>>]]

NoRun == [base |-> [props |-> <<>>, index |-> <<>>], added |-> <<>>]

\* no parse call is in progress
IdleParse ==
    /\ api = "none"
    /\ tokens = <<>>
    /\ pos = 1
    /\ nodes = <<>>
    /\ stack = <<>>
    /\ pc = "idle"
    /\ result = <<>>
    /\ raised = FALSE

NoDoc == [lines |-> <<>>, seps |-> <<>>]

\* no tokenizer call is in progress
IdleTokenize ==
    /\ doc = NoDoc
    /\ src = ""
    /\ lexed = <<>>
    /\ tpc = "idle"

\* no foldLine call is in progress
IdleFold ==
    /\ line = <<>>
    /\ folded = <<>>
    /\ fpc = "idle"
    /\ unfolded = <<>>

\* no codec call is in progress
IdleCodec ==
    /\ kind = "none"
    /\ arg = <<>>
    /\ mid = <<>>
    /\ ret = <<>>
    /\ cpc = "idle"

\* a component just constructed, before any call on it
FreshComponent ==
    /\ props = <<>>
    /\ index = <<>>
    /\ nextId = 1
    /\ last = NoCall
    /\ run = NoRun

InitComponent ==
    /\ FreshComponent
    /\ IdleCodec
    /\ IdleParse
    /\ IdleFold
    /\ IdleTokenize

Install(c) ==
    /\ props' = c.props
    /\ index' = c.index

ExtendRun(prop) ==
    run' = [base |-> run.base, added |-> Append(run.added, prop)]

ResetRun(c) ==
    run' = [base |-> c, added |-> <<>>]

\* comp.addProperty(new Property(name, value))
AddProperty ==
    /\ nextId <= MaxOps
    /\ \E name \in CallNames, value \in CallValues :
          LET prop == Property(nextId, name, Str(value), NoParams, "")
              c    == addProperty(Component, prop)
          IN  /\ Install(c)
              /\ last' = [op |-> "add", key |-> prop.name, present |-> TRUE,
                          id |-> nextId, pre |-> Component]
              /\ ExtendRun(prop)
    /\ nextId' = nextId + 1
    /\ UNCHANGED <<parseVars, foldVars, tokVars, codecVars>>

\* comp.appendProperty(name, value)
AppendProperty ==
    /\ nextId <= MaxOps
    /\ \E name \in CallNames, value \in CallValues :
          LET c == appendProperty(Component, nextId, name, Str(value), NoParams)
          IN  /\ Install(c)
              /\ last' = [op |-> "append", key |-> ToUpper(name), present |-> TRUE,
                          id |-> nextId, pre |-> Component]
              /\ ExtendRun(c.props[Len(c.props)])
    /\ nextId' = nextId + 1
    /\ UNCHANGED <<parseVars, foldVars, tokVars, codecVars>>

\* comp.setProperty(name, value)
SetProperty ==
    /\ nextId <= MaxOps
    /\ \E name \in CallNames, value \in SetValues :
          LET c == setProperty(Component, nextId, name, value, NoParams)
          IN  /\ Install(c)
              /\ last' = [op |-> "set", key |-> ToUpper(name), present |-> value.present,
                          id |-> nextId, pre |-> Component]
              /\ ResetRun(c)
    /\ nextId' = nextId + 1
    /\ UNCHANGED <<parseVars, foldVars, tokVars, codecVars>>

\* comp.removeProperty(name)
RemoveProperty ==
    /\ nextId <= MaxOps
    /\ \E name \in CallNames :
          LET c == removeProperty(Component, name)
          IN  /\ Install(c)
              /\ last' = [op |-> "remove", key |-> ToUpper(name), present |-> FALSE,
                          id |-> nextId, pre |-> Component]
              /\ ResetRun(c)
    /\ nextId' = nextId + 1
    /\ UNCHANGED <<parseVars, foldVars, tokVars, codecVars>>

NextComponent ==
    \/ AddProperty
    \/ AppendProperty
    \/ SetProperty
    \/ RemoveProperty

SpecComponent == InitComponent /\ [][NextComponent]_vars

-----------------------------------------------------------------------------
(* Claims about the property store *)

\* the properties of the ordered list that toString serializes under one name
Named(s, key) == SelectSeq(s, LAMBDA p : p.name = key)

Others(s, key) == SelectSeq(s, LAMBDA p : p.name # key)

ExpectedCount == IF last.present THEN 1 ELSE 0

\* C1: after setProperty(name, v) the ordered property list and
\* getProperties(name) both hold exactly one property named name when v is
\* present and none when v is null/undefined, however many existed before.
C1_SetLeavesExactlyOne ==
    last.op = "set" =>
        /\ Len(Named(props, last.key)) = ExpectedCount
        /\ Len(getProperties(Component, last.key)) = ExpectedCount

\* C2: when exactly one property named name existed before setProperty(name, v)
\* with v present, the new Property stands at the position the old one had,
\* and the properties of other names keep their identity and order.
C2_SetKeepsPosition ==
    (last.op = "set" /\ last.present /\ Len(Named(last.pre.props, last.key)) = 1) =>
        LET at == FindIndexByName(last.pre.props, last.key)
        IN  /\ Len(props) = Len(last.pre.props)
            /\ props[at].id = last.id
            /\ props[at].name = last.key
            /\ \A i \in 1..Len(props) : i # at => props[i] = last.pre.props[i]
            /\ Others(props, last.key) = Others(last.pre.props, last.key)

\* C2 witness: a replaced property that was the last of several
C2_Witness_ReplacedLast ==
    /\ last.op = "set" /\ last.present
    /\ Len(Named(last.pre.props, last.key)) = 1
    /\ Len(last.pre.props) >= 2
    /\ FindIndexByName(last.pre.props, last.key) = Len(last.pre.props)
    /\ props[Len(props)].id = last.id

\* C3: addProperty and appendProperty each put exactly one new occurrence at
\* the end of the ordered list and at the end of getProperties(name), without
\* replacing or deduplicating; after n such calls in a row getProperties(name)
\* has the n new entries of that name appended, in call order.
C3_AddAppendsOne ==
    /\ (last.op \in {"add", "append"}) =>
          /\ Len(props) = Len(last.pre.props) + 1
          /\ SubSeq(props, 1, Len(props) - 1) = last.pre.props
          /\ props[Len(props)].id = last.id
          /\ getProperties(Component, last.key) =
                Append(getProperties(last.pre, last.key), props[Len(props)])
          /\ \A k \in DOMAIN last.pre.index :
                k # last.key => getProperties(Component, k) = getProperties(last.pre, k)
    /\ props = run.base.props \o run.added
    /\ \A name \in CallNames :
          getProperties(Component, name) =
              getProperties(run.base, name) \o Named(run.added, ToUpper(name))

\* C3 witness: two consecutive additions under a name that already had an entry
C3_Witness_TwoMore ==
    /\ last.op \in {"add", "append"}
    /\ Len(run.added) >= 2
    /\ Len(Named(run.added, last.key)) >= 2
    /\ Len(getProperties(run.base, last.key)) >= 1
    /\ Len(getProperties(Component, last.key)) >= 3

-----------------------------------------------------------------------------
(* Tree assembly: buildTree (src/src/parse.ts) *)

RawNode(type) == [type |-> type, props |-> <<>>, children |-> <<>>]

Root == 1

PopAlways(stk) == SubSeq(stk, 1, Len(stk) - 1)

\* buildTree line 50: if (stack.length > 1) stack.pop()
PopUnlessRoot(stk) == IF Len(stk) > 1 THEN SubSeq(stk, 1, Len(stk) - 1) ELSE stk

\* buildTree lines 54-57: every parameter value becomes one string; a token
\* parameter is a bare string when it has exactly one value, else an array
FlattenParams(tparams) ==
    [i \in 1..Len(tparams) |->
        [k |-> tparams[i].k,
         v |-> IF Len(tparams[i].vals) = 1 THEN tparams[i].vals[1]
               ELSE Join(tparams[i].vals, ",")]]

\* the ContentLines the tokenizer hands to buildTree
BeginToken(v) == [name |-> "BEGIN", params |-> <<>>, value |-> v]

EndToken(v) == [name |-> "END", params |-> <<>>, value |-> v]

PropToken(n, ps, v) == [name |-> n, params |-> ps, value |-> v]

SummaryRaw == "Hi\\, all"
GoodFreqRaw == "freq=daily;COUNT=2"
BadFreqRaw == "FREQ=BOGUS;COUNT=2"
NoFreqRaw == "COUNT=2"
GoodPeriodRaw == "19970308T160000Z/PT3H"
BadPeriodRaw == "19970308T160000Z\\,x"
BusyParam == <<[k |-> "FBTYPE", vals |-> <<"BUSY">>]>>

TokenAlphabet ==
    { BeginToken("VCALENDAR"), BeginToken("vevent "), BeginToken("VALARM"),
      EndToken("VCALENDAR"),
      PropToken("SUMMARY", <<>>, SummaryRaw),
      PropToken("RRULE", <<>>, GoodFreqRaw),
      PropToken("RRULE", <<>>, BadFreqRaw),
      PropToken("RRULE", <<>>, NoFreqRaw),
      PropToken("FREEBUSY", BusyParam, GoodPeriodRaw),
      PropToken("FREEBUSY", BusyParam, BadPeriodRaw) }

TokenSeqs == UNION {[1..n -> TokenAlphabet] : n \in 0..MaxTokens}

\* parse(src) or parseAll(src) has entered buildTree, which both call first:
\* tokens, root and stack are set up
InitParse ==
    /\ FreshComponent
    /\ IdleCodec
    /\ IdleFold
    /\ IdleTokenize
    /\ api = "buildTree"
    /\ tokens \in TokenSeqs
    /\ pos = 1
    /\ nodes = <<RawNode("ROOT")>>
    /\ stack = <<Root>>
    /\ pc = "tree"
    /\ result = <<>>
    /\ raised = FALSE

\* const current = stack[stack.length - 1]!  is undefined on an empty stack,
\* and using it raises a TypeError
RaiseTypeError ==
    /\ raised' = TRUE
    /\ pc' = "done"
    /\ UNCHANGED <<api, tokens, pos, nodes, stack, result>>

\* one iteration of the loop on a BEGIN token
TreeBegin ==
    /\ pc = "tree" /\ pos <= Len(tokens)
    /\ tokens[pos].name = "BEGIN"
    /\ IF Len(stack) = 0 THEN RaiseTypeError
       ELSE LET current == stack[Len(stack)]
                node    == RawNode(Trim(ToUpper(tokens[pos].value)))
                id      == Len(nodes) + 1
            IN  /\ nodes' = Append([nodes EXCEPT ![current].children = Append(@, id)], node)
                /\ stack' = Append(stack, id)
                /\ pos' = pos + 1
                /\ UNCHANGED <<api, tokens, pc, result, raised>>
    /\ UNCHANGED <<compVars, foldVars, tokVars, codecVars>>

\* one iteration of the loop on an END token
TreeEnd ==
    /\ pc = "tree" /\ pos <= Len(tokens)
    /\ tokens[pos].name = "END"
    /\ stack' = PopUnlessRoot(stack)
    /\ pos' = pos + 1
    /\ UNCHANGED <<api, tokens, nodes, pc, result, raised>>
    /\ UNCHANGED <<compVars, foldVars, tokVars, codecVars>>

\* one iteration of the loop on any other token
TreeProp ==
    /\ pc = "tree" /\ pos <= Len(tokens)
    /\ tokens[pos].name \notin {"BEGIN", "END"}
    /\ IF Len(stack) = 0 THEN RaiseTypeError
       ELSE LET current == stack[Len(stack)]
                prop    == [name |-> tokens[pos].name,
                            params |-> FlattenParams(tokens[pos].params),
                            value |-> tokens[pos].value]
            IN  /\ nodes' = [nodes EXCEPT ![current].props = Append(@, prop)]
                /\ pos' = pos + 1
                /\ UNCHANGED <<api, tokens, stack, pc, result, raised>>
    /\ UNCHANGED <<compVars, foldVars, tokVars, codecVars>>

-----------------------------------------------------------------------------
(* Component builders and the public API (src/src/parse.ts) *)

RECURSIVE AddAll(_, _)
\* for (const {name, params, value} of props) c.addProperty(parseProperty(...))
AddAll(c, ps) ==
    IF Len(ps) = 0 THEN c ELSE AddAll(addProperty(c, Head(ps)), Tail(ps))

\* a typed component: cls is its class, components its children
Comp(cls, type, store, components) ==
    [cls |-> cls, type |-> type, props |-> store.props, index |-> store.index,
     components |-> components]

EmptyStore == [props |-> <<>>, index |-> <<>>]

\* X.fromRaw(props, subcomponents); kids are the outcomes of building the
\* children that the builder passes on (none for the builders that pass none)
fromRaw(cls, type, rawProps, kids) ==
    LET OfParsed(parsed) ==
            [threw |-> \/ \E j \in 1..Len(parsed) : parsed[j].threw
                       \/ \E j \in 1..Len(kids) : kids[j].threw,
             comp  |-> Comp(cls, type,
                            AddAll(EmptyStore, [j \in 1..Len(parsed) |-> parsed[j].prop]),
                            [j \in 1..Len(kids) |-> kids[j].comp])]
    IN  OfParsed([j \in 1..Len(rawProps) |->
                     parseProperty(rawProps[j].name, rawProps[j].value,
                                   rawProps[j].params)])

\* the switch of buildComponent: the class whose fromRaw builds a node
BuilderClass(type) ==
    CASE type = "VCALENDAR" -> "Calendar"
      [] type = "VEVENT"    -> "Event"
      [] type = "VTODO"     -> "Todo"
      [] type = "VJOURNAL"  -> "Journal"
      [] type = "VFREEBUSY" -> "FreeBusy"
      [] type = "VTIMEZONE" -> "Timezone"
      [] type = "VALARM"    -> "Alarm"
      [] type = "STANDARD"  -> "Standard"
      [] type = "DAYLIGHT"  -> "Daylight"
      [] OTHER              -> "Component"

\* the builders that hand the node's children on to fromRaw; buildJournal,
\* buildFreebusy, buildAlarm and buildTimezoneRule pass the properties only
PassesChildren(type) ==
    type \notin {"VJOURNAL", "VFREEBUSY", "VALARM", "STANDARD", "DAYLIGHT"}

RECURSIVE buildComponent(_, _)
buildComponent(ns, i) ==
    fromRaw(BuilderClass(ns[i].type),
            IF BuilderClass(ns[i].type) = "Component"
            THEN ToUpper(ns[i].type) ELSE ns[i].type,
            ns[i].props,
            IF PassesChildren(ns[i].type)
            THEN [j \in 1..Len(ns[i].children) |->
                     buildComponent(ns, ns[i].children[j])]
            ELSE <<>>)

buildCalendar(ns, i) == buildComponent(ns, i)

\* roots.filter((n) => n.type === 'VCALENDAR'), as the list of node ids
CalendarRoots(ns) == SelectSeq(ns[Root].children, LAMBDA i : ns[i].type = "VCALENDAR")

\* the body of parse(src) after buildTree returned ns
parse(ns) ==
    LET roots == ns[Root].children
        cals  == CalendarRoots(ns)
        Wrap(kids) ==
            [threw |-> \E j \in 1..Len(kids) : kids[j].threw,
             comp  |-> Comp("Calendar", "VCALENDAR", EmptyStore,
                            [j \in 1..Len(kids) |-> kids[j].comp])]
    IN  IF Len(cals) > 0 THEN buildCalendar(ns, cals[1])
        ELSE Wrap([j \in 1..Len(roots) |-> buildComponent(ns, roots[j])])

\* the body of parseAll(src) after buildTree returned ns
parseAll(ns) ==
    LET cals == CalendarRoots(ns)
        OfBuilt(built) ==
            [threw |-> \E j \in 1..Len(built) : built[j].threw,
             list  |-> [j \in 1..Len(built) |-> built[j].comp]]
    IN  IF Len(cals) > 0
        THEN OfBuilt([j \in 1..Len(cals) |-> buildCalendar(ns, cals[j])])
        ELSE OfBuilt(<<parse(ns)>>)

\* buildTree returned to parse, which builds and returns its Calendar
Parse ==
    /\ pc = "tree" /\ pos > Len(tokens)
    /\ api' = "parse"
    /\ LET Return(out) ==
               /\ raised' = out.threw
               /\ result' = IF out.threw THEN <<>> ELSE <<out.comp>>
       IN  Return(parse(nodes))
    /\ pc' = "done"
    /\ UNCHANGED <<tokens, pos, nodes, stack>>
    /\ UNCHANGED <<compVars, foldVars, tokVars, codecVars>>

\* buildTree returned to parseAll, which builds and returns its Calendar list
ParseAll ==
    /\ pc = "tree" /\ pos > Len(tokens)
    /\ api' = "parseAll"
    /\ LET Return(out) ==
               /\ raised' = out.threw
               /\ result' = IF out.threw THEN <<>> ELSE out.list
       IN  Return(parseAll(nodes))
    /\ pc' = "done"
    /\ UNCHANGED <<tokens, pos, nodes, stack>>
    /\ UNCHANGED <<compVars, foldVars, tokVars, codecVars>>

NextParse ==
    \/ TreeBegin
    \/ TreeEnd
    \/ TreeProp
    \/ Parse
    \/ ParseAll

SpecParse == InitParse /\ [][NextParse]_vars

-----------------------------------------------------------------------------
(* Claims about tree assembly, parse and parseAll *)

Consumed == SubSeq(tokens, 1, pos - 1)

RECURSIVE Depth(_)
\* the number of components open after a token sequence, an END without an
\* open component being ignored
Depth(ts) ==
    IF Len(ts) = 0 THEN 0
    ELSE LET d == Depth(SubSeq(ts, 1, Len(ts) - 1))
             t == ts[Len(ts)]
         IN  IF t.name = "BEGIN" THEN d + 1
             ELSE IF t.name = "END" THEN (IF d > 0 THEN d - 1 ELSE 0)
             ELSE d

CountTokens(ts, names) == Cardinality({i \in 1..Len(ts) : ts[i].name \in names})

RECURSIVE SumProps(_, _)
SumProps(ns, i) == IF i = 0 THEN 0 ELSE Len(ns[i].props) + SumProps(ns, i - 1)

\* C4: tree assembly never raises and never empties its stack: the synthetic
\* root stays at the bottom, an END pops only while a component is open and
\* is ignored otherwise, and every token up to the end is processed.
C4_TreeAssemblyTolerant ==
    /\ Len(stack) >= 1
    /\ stack[1] = Root
    /\ Len(stack) = 1 + Depth(Consumed)
    /\ Len(nodes) = 1 + CountTokens(Consumed, {"BEGIN"})
    /\ SumProps(nodes, Len(nodes)) =
          Len(Consumed) - CountTokens(Consumed, {"BEGIN", "END"})
    /\ pc = "done" => pos = Len(tokens) + 1

\* C4 witness: an END met with only the root open was ignored and a BEGIN
\* after it was still processed
C4_Witness_ExtraEnd ==
    /\ pc = "done"
    /\ \E i \in 1..Len(tokens) :
          /\ tokens[i].name = "END"
          /\ Depth(SubSeq(tokens, 1, i - 1)) = 0
          /\ \E j \in (i + 1)..Len(tokens) : tokens[j].name = "BEGIN"
    /\ Len(nodes) >= 2

\* positions, among the top-level nodes, of the VCALENDAR blocks
TopLevel == nodes[Root].children

CalendarPositions == {j \in 1..Len(TopLevel) : nodes[TopLevel[j]].type = "VCALENDAR"}

FirstCalendarPosition ==
    CHOOSE j \in CalendarPositions : \A k \in CalendarPositions : j <= k

\* the Calendar c is a synthesized wrapper of all loose content: every
\* top-level component, in order, and every property token that appeared
\* outside any component
WrapsLooseContent(c) ==
    /\ c.cls = "Calendar" /\ c.type = "VCALENDAR"
    /\ Len(c.components) = Len(TopLevel)
    /\ \A j \in 1..Len(TopLevel) :
          c.components[j] = buildComponent(nodes, TopLevel[j]).comp
    /\ Len(c.props) = Len(nodes[Root].props)
    /\ \A j \in 1..Len(c.props) :
          /\ c.props[j].name = nodes[Root].props[j].name
          /\ c.props[j].rawValue = nodes[Root].props[j].value

\* C5: parse returns the first top-level VCALENDAR when one exists, and
\* otherwise one synthesized Calendar that contains all loose content: every
\* top-level component and every property token outside any component.
C5_ParseFirstOrWrapsAll ==
    (pc = "done" /\ api = "parse") =>
        /\ ~raised
        /\ Len(result) = 1
        /\ IF CalendarPositions # {}
           THEN result[1] = buildComponent(nodes, TopLevel[FirstCalendarPosition]).comp
           ELSE WrapsLooseContent(result[1])

\* C6: parseAll returns one Calendar per top-level VCALENDAR block, in
\* document order, when there is one, and otherwise exactly one synthesized
\* Calendar wrapping the loose content.
C6_ParseAllPerBlockOrWraps ==
    (pc = "done" /\ api = "parseAll") =>
        /\ ~raised
        /\ IF CalendarPositions # {}
           THEN /\ Len(result) = Cardinality(CalendarPositions)
                /\ \A i \in 1..Len(result) :
                      \E j \in CalendarPositions :
                          /\ Cardinality({k \in CalendarPositions : k <= j}) = i
                          /\ result[i] = buildComponent(nodes, TopLevel[j]).comp
           ELSE /\ Len(result) = 1
                /\ WrapsLooseContent(result[1])

\* C7: parse returns a Calendar without raising for every text that yields
\* at least one token and raises for a text that yields zero tokens.
C7_ParseRaisesOnlyOnZeroTokens ==
    (pc = "done" /\ api = "parse") =>
        /\ raised <=> Len(tokens) = 0
        /\ ~raised => (Len(result) = 1 /\ result[1].cls = "Calendar")

\* the raw values of the enumerated tokens whose codec raises, by property
\* name: a PERIOD without '/', a recurrence rule without a valid FREQ
RaisingRaws ==
    [n \in {"SUMMARY", "RRULE", "FREEBUSY"} |->
        CASE n = "FREEBUSY" -> {BadPeriodRaw}
          [] n = "RRULE"    -> {BadFreqRaw, NoFreqRaw}
          [] OTHER          -> {}]

\* what each enumerated token parses to when its codec does not raise
ParsedNormally(p) ==
    CASE p.name = "SUMMARY"  -> p.value = Str("Hi, all")
      [] p.name = "RRULE"    -> /\ p.value # Str(p.rawValue)
                                /\ p.value.type = "recur"
                                /\ p.value.freq = "DAILY"
                                /\ p.value.count = Num(2)
      [] p.name = "FREEBUSY" -> /\ p.value # Str(p.rawValue)
                                /\ Len(p.value.list) = 1
                                /\ p.value.list[1].type = "period"
                                /\ p.value.list[1].start.hour = Num(16)
                                /\ p.value.list[1].end.type = "duration"
                                /\ p.value.list[1].end.hours = Num(3)

\* property p was built from raw property token t
BuiltFrom(p, t) ==
    /\ p.name = t.name
    /\ p.params = t.params
    /\ p.rawValue = t.value
    /\ IF t.value \in RaisingRaws[t.name]
       THEN p.value = Str(t.value)
       ELSE ParsedNormally(p)

RECURSIVE BuiltFromNode(_, _)
\* component c carries the properties of raw node i, each built from its
\* token, and so do the children it keeps
BuiltFromNode(c, i) ==
    /\ c.type = nodes[i].type
    /\ Len(c.props) = Len(nodes[i].props)
    /\ \A j \in 1..Len(c.props) : BuiltFrom(c.props[j], nodes[i].props[j])
    /\ Len(c.components) = Len(nodes[i].children) =>
          \A j \in 1..Len(c.components) :
              BuiltFromNode(c.components[j], nodes[i].children[j])

\* the raw node each returned Calendar was built from (0: synthesized)
ResultNode(i) ==
    IF CalendarPositions = {} THEN 0
    ELSE TopLevel[CHOOSE j \in CalendarPositions :
                      Cardinality({k \in CalendarPositions : k <= j}) = i]

\* C8: when a value codec raises on a property's raw value during document
\* parsing, parsing continues; the property is stored with the untouched raw
\* string as its value, name and parameters kept, and every other property
\* and component is parsed normally.
C8_CodecFailureFallsBackToRaw ==
    pc = "done" =>
        /\ ~raised
        /\ Len(result) >= 1
        /\ \A i \in 1..Len(result) :
              IF ResultNode(i) # 0
              THEN BuiltFromNode(result[i], ResultNode(i))
              ELSE /\ Len(result[i].components) = Len(TopLevel)
                   /\ \A j \in 1..Len(TopLevel) :
                          BuiltFromNode(result[i].components[j], TopLevel[j])

\* C8 witness: a Calendar whose FREEBUSY value had no '/', stored raw with
\* its FBTYPE parameter, followed by a SUMMARY parsed as TEXT
C8_Witness_RawFallback ==
    /\ pc = "done" /\ ~raised /\ Len(result) = 1
    /\ Len(result[1].props) = 2
    /\ result[1].props[1].name = "FREEBUSY"
    /\ result[1].props[1].value = Str(BadPeriodRaw)
    /\ result[1].props[1].params = <<[k |-> "FBTYPE", v |-> "BUSY"]>>
    /\ result[1].props[2].name = "SUMMARY"
    /\ result[1].props[2].value = Str("Hi, all")

RECURSIVE PropsUnder(_)
\* all properties of a component and of its descendants
PropsUnder(c) ==
    {c.props[j] : j \in 1..Len(c.props)}
    \cup UNION {PropsUnder(c.components[j]) : j \in 1..Len(c.components)}

ResultProps == UNION {PropsUnder(result[i]) : i \in 1..Len(result)}

InvalidFreqRaws == {BadFreqRaw, NoFreqRaw}

-----------------------------------------------------------------------------
(* Line folding: octetLen and foldLine (src/src/component.ts).  A string is *)
(* the list of its UTF-16 code units, as charCodeAt reads them.             *)

FoldThreshold == 75

FirstLineOctets == 75

ContinuationOctets == 74

UnitsAsOctets(c) == 1

\* the classification both octetLen and foldLine apply to a code unit
CharOctets(c) ==
    IF c < 128 THEN 1
    ELSE IF c < 2048 THEN 2
    ELSE IF c < 55296 \/ c >= 57344 THEN 3
    ELSE 4

RECURSIVE octetLenFrom(_, _)
\* the for loop of octetLen from 0-based index i on; a code unit in the
\* surrogate range skips the unit after it
octetLenFrom(s, i) ==
    IF i >= Len(s) THEN 0
    ELSE CharOctets(s[i + 1])
         + octetLenFrom(s, IF CharOctets(s[i + 1]) = 4 THEN i + 2 ELSE i + 1)

octetLen(s) == octetLenFrom(s, 0)

ContinuationBudgetOnly(firstLine) == ContinuationOctets

\* const maxOctets = firstLine ? 75 : 74
maxOctets(firstLine) == IF firstLine THEN FirstLineOctets ELSE ContinuationOctets

RECURSIVE ChunkEnd(_, _, _, _)
\* the inner while loop: the 0-based end of the chunk that starts with
\* octets octets already taken up to end
ChunkEnd(s, end, octets, max) ==
    IF end >= Len(s) THEN end
    ELSE IF octets + CharOctets(s[end + 1]) > max THEN end
    ELSE ChunkEnd(s,
                  end + (IF s[end + 1] >= 55296 /\ s[end + 1] < 56320 THEN 2 ELSE 1),
                  octets + CharOctets(s[end + 1]), max)

\* s.slice(a, b) on a list of code units
SliceUnits(s, a, b) ==
    IF a >= Min(b, Len(s)) THEN <<>> ELSE SubSeq(s, a + 1, Min(b, Len(s)))

SpaceUnit == 32

CRLF == <<13, 10>>

NoPrefix(firstLine) == <<>>

\* (firstLine ? '' : ' ')
ContinuationPrefix(firstLine) == IF firstLine THEN <<>> ELSE <<SpaceUnit>>

RECURSIVE FoldChunks(_, _, _)
\* the outer while loop from pos on: the chunks pushed
FoldChunks(s, at, firstLine) ==
    IF at >= Len(s) THEN <<>>
    ELSE LET OfEnd(end) ==
                 IF end = at THEN <<>>
                 ELSE <<ContinuationPrefix(firstLine) \o SliceUnits(s, at, end)>>
                      \o FoldChunks(s, end, FALSE)
         IN  OfEnd(ChunkEnd(s, at, 0, maxOctets(firstLine)))

RECURSIVE JoinUnits(_, _)
\* chunks.join(sep)
JoinUnits(chunks, sep) ==
    IF Len(chunks) = 0 THEN <<>>
    ELSE IF Len(chunks) = 1 THEN chunks[1]
    ELSE chunks[1] \o sep \o JoinUnits(Tail(chunks), sep)

foldLine(s) ==
    IF octetLen(s) <= FoldThreshold THEN s
    ELSE JoinUnits(FoldChunks(s, 0, TRUE), CRLF)

\* the content lines handed to foldLine: padding around one or two
\* characters of each UTF-8 width, the first placed around octet 75 and
\* the second near the end of the first continuation line
\* n octets of padding: U+4E2D (3 octets) as often as it fits, then the
\* letter A
Pad(n) ==
    [i \in 1..(n \div 3) + (n % 3) |-> IF i <= n \div 3 THEN 20013 ELSE 65]

\* no character, or U+00E9 (2 octets), U+4E2D (3 octets), U+1F600 (4
\* octets, a surrogate pair)
WideChars == {<<>>, <<233>>, <<20013>>, <<55357, 56832>>}

LeadPads == {FoldThreshold + 1 - d : d \in 0..MaxLead}

MidPads == {0} \cup {ContinuationOctets - d : d \in 0..MaxTail}

FoldInputs ==
    { Pad(n) \o w1 \o Pad(m) \o w2 \o Pad(t) :
        n \in LeadPads, w1 \in WideChars, m \in MidPads,
        w2 \in WideChars, t \in 0..MaxTail }

\* foldLine(line) has been called
InitFold ==
    /\ FreshComponent
    /\ IdleCodec
    /\ IdleParse
    /\ IdleTokenize
    /\ line \in FoldInputs
    /\ folded = <<>>
    /\ fpc = "call"
    /\ unfolded = <<>>

\* foldLine runs and returns
FoldLine ==
    /\ fpc = "call"
    /\ folded' = foldLine(line)
    /\ fpc' = "ret"
    /\ UNCHANGED <<line, unfolded>>
    /\ UNCHANGED <<compVars, parseVars, tokVars, codecVars>>

NextFold == FoldLine

SpecFold == InitFold /\ [][NextFold]_vars

-----------------------------------------------------------------------------
(* Claims about line folding *)

\* the UTF-8 length of a well-formed UTF-16 string: one, two or three octets
\* for a code unit outside the surrogate range, two for each half of a pair
Utf8Unit(c) ==
    IF c <= 127 THEN 1
    ELSE IF c <= 2047 THEN 2
    ELSE IF c >= 55296 /\ c <= 57343 THEN 2
    ELSE 3

RECURSIVE Utf8OctetsUpTo(_, _)
Utf8OctetsUpTo(s, k) == IF k = 0 THEN 0 ELSE Utf8OctetsUpTo(s, k - 1) + Utf8Unit(s[k])

Utf8Octets(s) == Utf8OctetsUpTo(s, Len(s))

RECURSIVE SegmentsFrom(_, _, _)
\* the physical lines of s from position start on, the scan being at i
SegmentsFrom(s, start, i) ==
    IF i > Len(s) THEN <<SubSeq(s, start, Len(s))>>
    ELSE IF i < Len(s) /\ s[i] = 13 /\ s[i + 1] = 10
         THEN <<SubSeq(s, start, i - 1)>> \o SegmentsFrom(s, i + 2, i + 2)
         ELSE SegmentsFrom(s, start, i + 1)

\* the physical lines of a folded string: its parts between CR LF pairs
Segments(s) == SegmentsFrom(s, 1, 1)

FirstSegment == Segments(folded)[1]

\* the prefix of line of k code units ends between two characters
WholeCharPrefix(k) ==
    ~(k >= 1 /\ k < Len(line) /\ line[k] >= 55296 /\ line[k] <= 56319)

\* the UTF-8 length of the character of line that starts after k code units
\* (0 at the end of line)
NextCharOctets(k) ==
    IF k >= Len(line) THEN 0
    ELSE IF line[k + 1] >= 55296 /\ line[k + 1] <= 56319 THEN 4
    ELSE Utf8Unit(line[k + 1])

\* C10: foldLine emits a content line of at most 75 UTF-8 octets unchanged,
\* and splits every longer line so that the first emitted segment is exactly
\* 75 octets; a line of 76 octets is folded into exactly two segments.
C10_FoldFirstSegmentExactly75 ==
    fpc = "ret" =>
        /\ Utf8Octets(line) <= 75 => folded = line
        /\ Utf8Octets(line) > 75 =>
              /\ Len(Segments(folded)) >= 2
              /\ Utf8Octets(FirstSegment) = 75
        /\ Utf8Octets(line) = 76 => Len(Segments(folded)) = 2

\* C10 amended: a line of at most 75 octets is emitted unchanged; a longer
\* line is split so that the first segment is the longest prefix of whole
\* characters that fits in 75 octets, which is exactly 75 octets when a
\* character boundary falls there and 72 to 74 octets when a multi-octet
\* character straddles it; a line of 76 octets gives exactly two segments.
C10_FoldFirstSegmentLongestFit ==
    fpc = "ret" =>
        /\ Utf8Octets(line) <= 75 => folded = line
        /\ Utf8Octets(line) > 75 =>
              /\ Len(Segments(folded)) >= 2
              /\ WholeCharPrefix(Len(FirstSegment))
              /\ FirstSegment = SubSeq(line, 1, Len(FirstSegment))
              /\ Utf8Octets(FirstSegment) \in 72..75
              /\ Utf8Octets(FirstSegment) + NextCharOctets(Len(FirstSegment)) > 75
              /\ Utf8Octets(FirstSegment) < 75 => NextCharOctets(Len(FirstSegment)) >= 2
        /\ Utf8Octets(line) = 76 => Len(Segments(folded)) = 2

\* C10 witness: a 76-octet line whose 4-octet character straddles octet 75
\* was folded into two segments, the first of 72 octets
C10_Witness_StraddlingPair ==
    /\ fpc = "ret"
    /\ Utf8Octets(line) = 76
    /\ Len(Segments(folded)) = 2
    /\ Utf8Octets(FirstSegment) = 72
    /\ Segments(folded)[2] = <<32, 55357, 56832>>

\* the part of a continuation segment after its first code unit
Payload(seg) == SubSeq(seg, 2, Len(seg))

IsHighSurrogate(c) == c >= 55296 /\ c <= 56319

IsLowSurrogate(c) == c >= 56320 /\ c <= 57343

-----------------------------------------------------------------------------
(* The tokenizer's unfold (src/src/parse.ts) and the fold/unfold round trip *)

\* the three replace calls of unfold, on a string whose characters are the
\* one-element strings cr, lf, sp and tab
unfoldOver(str, cr, lf, sp, tab) ==
    ReplaceAll2(ReplaceAll1(ReplaceAll2(str, {cr \o lf}, lf), {cr}, lf),
                {lf \o sp, lf \o tab}, SubSeq(str, 1, 0))

unfoldWithoutBareCR(str) ==
    ReplaceAll2(ReplaceAll2(str, {"\r\n"}, "\n"), {"\n ", "\n\t"}, "")

unfold(str) == unfoldOver(str, "\r", "\n", " ", "\t")

\* unfold on a string given as its list of UTF-16 code units
unfoldUnits(s) == unfoldOver(s, <<13>>, <<10>>, <<32>>, <<9>>)

\* what can stand around a fold boundary: the characters of each UTF-8
\* width, SPACE and TAB, and a surrogate without its partner
BoundaryChars ==
    WideChars \cup {<<32>>, <<9>>, <<32, 32>>, <<9, 32>>, <<55357>>, <<56832>>}

\* short strings that contain line breaks
BreakUnits == {65, 32, 13, 10}

BreakLines == UNION {[1..n -> BreakUnits] : n \in 1..MaxTail + 1}

RoundTripInputs ==
    { Pad(n) \o w1 \o Pad(m) \o w2 \o Pad(t) :
        n \in LeadPads, w1 \in BoundaryChars, m \in MidPads,
        w2 \in WideChars, t \in 0..MaxTail }
    \cup BreakLines

\* foldLine(s) has been called, to be followed by unfold on its result
InitRoundTrip ==
    /\ FreshComponent
    /\ IdleCodec
    /\ IdleParse
    /\ IdleTokenize
    /\ line \in RoundTripInputs
    /\ folded = <<>>
    /\ fpc = "call"
    /\ unfolded = <<>>

\* unfold runs on the folded string and returns
Unfold ==
    /\ fpc = "ret"
    /\ unfolded' = unfoldUnits(folded)
    /\ fpc' = "unfolded"
    /\ UNCHANGED <<line, folded>>
    /\ UNCHANGED <<compVars, parseVars, tokVars, codecVars>>

NextRoundTrip ==
    \/ FoldLine
    \/ Unfold

SpecRoundTrip == InitRoundTrip /\ [][NextRoundTrip]_vars

HasLineBreak(s) == \E i \in 1..Len(s) : s[i] \in {13, 10}

-----------------------------------------------------------------------------
(* The tokenizer: parseContentLine and tokenize (src/src/parse.ts).  An     *)
(* index i is 0-based as in the code; line[i] is CharAt(line, i + 1).       *)

RECURSIVE ScanTo(_, _, _)
\* while (i < len && line[i] is none of stops) i++
ScanTo(ln, i, stops) ==
    IF i < Len(ln) /\ CharAt(ln, i + 1) \notin stops THEN ScanTo(ln, i + 1, stops) ELSE i

\* i < len && line[i] === c
At(ln, i, c) == i < Len(ln) /\ CharAt(ln, i + 1) = c

TrimmedValue(ln, vStart, i) == Trim(Slice(ln, vStart, i))

\* line 231: values.push(line.slice(vStart, i)) of a quoted value
QuotedValue(ln, vStart, i) == Slice(ln, vStart, i)

RECURSIVE ValuesFrom(_, _, _)
\* the do-while loop over the comma-separated values of one parameter,
\* entered at i with values collected: the values and the index it ends at
ValuesFrom(ln, i, values) ==
    LET After(vals, j) ==
            IF At(ln, j, ",") THEN ValuesFrom(ln, j + 1, vals)
            ELSE [vals |-> vals, i |-> j]
        Quoted(close) ==
            After(Append(values, QuotedValue(ln, i + 1, close)),
                  IF close < Len(ln) THEN close + 1 ELSE close)
        Unquoted(stop) == After(Append(values, TrimmedValue(ln, i, stop)), stop)
    IN  IF At(ln, i, "\"")
        THEN Quoted(ScanTo(ln, i + 1, {"\""}))
        ELSE Unquoted(ScanTo(ln, i, {",", ";", ":"}))

AlwaysList(values) == List(values)

\* values.length === 1 ? (values[0] ?? '') : values
StoredParam(values) == IF Len(values) = 1 THEN Str(values[1]) ELSE List(values)

\* params[k] = v on a record that keeps insertion order: params is the list
\* of its [k, v] entries
ParamSet(params, k, v) ==
    IF \E j \in 1..Len(params) : params[j].k = k
    THEN [j \in 1..Len(params) |-> IF params[j].k = k THEN [k |-> k, v |-> v] ELSE params[j]]
    ELSE Append(params, [k |-> k, v |-> v])

RECURSIVE ParamsFrom(_, _, _)
\* the while loop over the parameters, entered at i with params collected:
\* the parameters and the index it ends at
ParamsFrom(ln, i, params) ==
    LET Store(paramName, got) ==
            ParamsFrom(ln, got.i,
                       IF Len(paramName) > 0
                       THEN ParamSet(params, paramName, StoredParam(got.vals))
                       ELSE params)
        OfName(pnStart, pnEnd) ==
            Store(ToUpper(Trim(Slice(ln, pnStart, pnEnd))),
                  IF At(ln, pnEnd, "=") THEN ValuesFrom(ln, pnEnd + 1, <<>>)
                  ELSE [vals |-> <<>>, i |-> pnEnd])
    IN  IF At(ln, i, ";")
        THEN OfName(i + 1, ScanTo(ln, i + 1, {"=", ";", ":"}))
        ELSE [params |-> params, i |-> i]

Null == [null |-> TRUE]

ContentLine(name, params, value) == [name |-> name, params |-> params, value |-> value]

ValueWithColon(ln, i) == SliceFrom(ln, i)

\* lines 247-248: if (i < len && line[i] === ':') i++; value = line.slice(i)
ValueFrom(ln, i) == SliceFrom(ln, IF At(ln, i, ":") THEN i + 1 ELSE i)

parseContentLine(ln) ==
    LET WithParams(name, got) == ContentLine(name, got.params, ValueFrom(ln, got.i))
        WithName(name, i) ==
            IF Len(name) = 0 THEN Null ELSE WithParams(name, ParamsFrom(ln, i, <<>>))
        NameEnds(i) == WithName(ToUpper(Trim(Slice(ln, 0, i))), i)
    IN  IF Len(ln) = 0 THEN Null ELSE NameEnds(ScanTo(ln, 0, {":", ";"}))

RECURSIVE TokenizeLines(_)
\* the for-of loop of tokenize over the lines
TokenizeLines(lines) ==
    IF Len(lines) = 0 THEN <<>>
    ELSE LET Keep(parsed) == IF parsed = Null THEN <<>> ELSE <<parsed>>
         IN  (IF Len(Trim(Head(lines))) = 0 THEN <<>>
              ELSE Keep(parseContentLine(Head(lines))))
             \o TokenizeLines(Tail(lines))

tokenize(text) == TokenizeLines(Split(unfold(text), "\n"))

-----------------------------------------------------------------------------
(* The documents handed to tokenize *)

\* the lines of a document: content lines, a line that starts with SPACE
\* (a continuation), and empty and whitespace-only lines
DocLines == {"S:x", "u;A=1:y:z", " c", "", " ", "  ", "\t\t"}

Separators == {"\r\n", "\n", "\r"}

RECURSIVE JoinWith(_, _)
\* the text of the lines with seps[i] between line i and line i + 1
JoinWith(lines, seps) ==
    IF Len(lines) = 0 THEN ""
    ELSE IF Len(lines) = 1 THEN lines[1]
    ELSE lines[1] \o seps[1] \o JoinWith(Tail(lines), Tail(seps))

\* an empty line between a CR and an LF would read as one CRLF
WellSeparated(d) ==
    \A i \in 1..(Len(d.seps) - 1) :
        ~(d.seps[i] = "\r" /\ d.lines[i + 1] = "" /\ d.seps[i + 1] = "\n")

Docs ==
    { d \in UNION { [lines : [1..n -> DocLines], seps : [1..(n - 1) -> Separators]] :
                      n \in 1..MaxLines } : WellSeparated(d) }

\* tokenize(src) has been called on the text of a document
InitTokenize ==
    /\ FreshComponent
    /\ IdleCodec
    /\ IdleParse
    /\ IdleFold
    /\ doc \in Docs
    /\ src = JoinWith(doc.lines, doc.seps)
    /\ lexed = <<>>
    /\ tpc = "tokenize"

\* tokenize runs and returns
Tokenize ==
    /\ tpc = "tokenize"
    /\ lexed' = tokenize(src)
    /\ tpc' = "ret"
    /\ UNCHANGED <<doc, src>>
    /\ UNCHANGED <<compVars, parseVars, foldVars, codecVars>>

NextTokenize == Tokenize

SpecTokenize == InitTokenize /\ [][NextTokenize]_vars

\* C13: tokenize yields identical ContentLine sequences for the same
\* logical document whether its lines are separated by CRLF, bare LF, bare
\* CR, or any mixture of these.
C13_SeparatorsAgree ==
    tpc = "ret" =>
        /\ lexed = tokenize(Join(doc.lines, "\n"))
        /\ lexed = tokenize(Join(doc.lines, "\r\n"))
        /\ lexed = tokenize(Join(doc.lines, "\r"))

\* C13 witness: a document that mixes a bare CR and a CRLF, the CR being
\* followed by a continuation line
C13_Witness_MixedSeparators ==
    /\ tpc = "ret"
    /\ doc.seps = <<"\r", "\r\n">>
    /\ doc.lines[2] = " c"
    /\ Len(lexed) = 2
    /\ lexed[1].value = "xc"
    /\ lexed[2].name = "U"

IsBlankLine(l) == Len(Trim(l)) = 0

\* the document is content lines with blank lines only between them: it
\* starts and ends with a content line and has no continuation line
BlanksBetweenContentLines ==
    /\ ~IsBlankLine(doc.lines[1])
    /\ ~IsBlankLine(doc.lines[Len(doc.lines)])
    /\ \A i \in 1..Len(doc.lines) :
          IsBlankLine(doc.lines[i]) \/ CharAt(doc.lines[i], 1) \notin {" ", "\t"}

\* C14: blank or whitespace-only lines between content lines are silently
\* dropped by tokenize: the resulting ContentLine sequence (names,
\* parameters and values) equals that of the same text with those lines
\* removed.
C14_BlankLinesDropped ==
    (tpc = "ret" /\ BlanksBetweenContentLines) =>
        lexed = tokenize(Join(SelectSeq(doc.lines, LAMBDA l : ~IsBlankLine(l)), "\n"))

-----------------------------------------------------------------------------
(* The lines handed to parseContentLine: a name, parameters, and the rest *)

NamePieces == {"N", " n ", "", " "}

\* the last one has text after its closing quote
ParamPieces ==
    {";A=1", ";a=2", ";b= x ,y", ";C=\"p,q;r:s\"", ";D=\"u\", v", ";E", ";F=", ";G=\"w\"k"}

TailPieces == {"", ":", ":v ", ":http://h:1"}

LinePieces ==
    UNION { { <<n>> \o ps \o <<t>> : n \in NamePieces, ps \in [1..k -> ParamPieces],
                                     t \in TailPieces } : k \in 0..MaxParams }

\* parseContentLine(src) has been called on the pieces put together
InitLine ==
    /\ FreshComponent
    /\ IdleCodec
    /\ IdleParse
    /\ IdleFold
    /\ \E pieces \in LinePieces : doc = [lines |-> pieces, seps |-> <<>>]
    /\ src = Join(doc.lines, "")
    /\ lexed = <<>>
    /\ tpc = "line"

\* parseContentLine runs and returns a ContentLine or null
ParseContentLine ==
    /\ tpc = "line"
    /\ lexed' = <<parseContentLine(src)>>
    /\ tpc' = "ret"
    /\ UNCHANGED <<doc, src>>
    /\ UNCHANGED <<compVars, parseVars, foldVars, codecVars>>

NextLine == ParseContentLine

SpecLine == InitLine /\ [][NextLine]_vars

\* what each parameter piece says: its name and its value, a bare string
\* for one value and the ordered list for several
PieceMeaning ==
    [p \in ParamPieces |->
        CASE p = ";A=1"                -> [k |-> "A", v |-> Str("1")]
          [] p = ";a=2"                -> [k |-> "A", v |-> Str("2")]
          [] p = ";b= x ,y"            -> [k |-> "B", v |-> List(<<"x", "y">>)]
          [] p = ";C=\"p,q;r:s\""      -> [k |-> "C", v |-> Str("p,q;r:s")]
          [] p = ";D=\"u\", v"         -> [k |-> "D", v |-> List(<<"u", "v">>)]
          [] p = ";E"                  -> [k |-> "E", v |-> List(<<>>)]
          [] p = ";F="                 -> [k |-> "F", v |-> Str("")]
          [] p = ";G=\"w\"k"           -> [k |-> "G", v |-> Str("w")]]

NamePiece == doc.lines[1]

TailPiece == doc.lines[Len(doc.lines)]

\* the positions in doc.lines of the parameter pieces the parameter section
\* reaches: it ends at text that follows a closing quote
ReachedParams ==
    {i \in 2..(Len(doc.lines) - 1) :
        \A j \in 2..(i - 1) : doc.lines[j] # ";G=\"w\"k"}

CutShort == \E i \in ReachedParams : doc.lines[i] = ";G=\"w\"k"

\* C15: parseContentLine stores a parameter that has one value as a bare
\* string and a parameter that has several comma-separated values as an
\* ordered list of those values; a double-quoted parameter value is taken
\* verbatim up to the next double quote, without the quotes and including
\* embedded ',', ';' and ':'.
C15_ParamValuesStored ==
    (tpc = "ret" /\ lexed[1] # Null) =>
        /\ \A i \in ReachedParams :
              (\A j \in ReachedParams :
                    j > i => PieceMeaning[doc.lines[j]].k # PieceMeaning[doc.lines[i]].k)
              => \E e \in 1..Len(lexed[1].params) :
                    lexed[1].params[e] = PieceMeaning[doc.lines[i]]
        /\ \A e \in 1..Len(lexed[1].params) :
              \E i \in ReachedParams : lexed[1].params[e].k = PieceMeaning[doc.lines[i]].k

\* C15 witness: a quoted value with ',' ';' ':' stored as a bare string
\* next to a two-value parameter stored as a list
C15_Witness_QuotedAndList ==
    /\ tpc = "ret" /\ lexed[1] # Null
    /\ lexed[1].params = <<[k |-> "C", v |-> Str("p,q;r:s")],
                           [k |-> "D", v |-> List(<<"u", "v">>)]>>
    /\ lexed[1].value = "http://h:1"

-----------------------------------------------------------------------------
(* The value serializers (src/src/value-types.ts) *)

RECURSIVE NatToString(_)
\* the decimal digits of a natural number
NatToString(n) ==
    IF n < 10 THEN CharAt(Digits, n + 1)
    ELSE NatToString(n \div 10) \o CharAt(Digits, (n % 10) + 1)

\* String(v) of a number or undefined, as template literals and join apply it
JSString(v) ==
    IF v = Undefined THEN "undefined"
    ELSE IF v.nan THEN "NaN"
    ELSE IF v.num < 0 THEN "-" \o NatToString(0 - v.num)
    ELSE NatToString(v.num)

RECURSIVE PadStart(_, _)
\* s.padStart(n, '0')
PadStart(s, n) == IF Len(s) >= n THEN s ELSE PadStart("0" \o s, n)

pad2(n) == PadStart(JSString(n), 2)

pad4(n) == PadStart(JSString(n), 4)

\* a number or undefined used as a condition
Truthy(v) == v # Undefined /\ v # NaN /\ v # Num(0)

\* val is a string value; null and undefined are not modelled
TEXT_serialize(val) ==
    ReplaceAll1(ReplaceAll1(ReplaceAll1(ReplaceAll1(val.str,
        {"\\"}, "\\\\"), {";"}, "\\;"), {","}, "\\,"), {"\n"}, "\\n")

UTC_OFFSET_serialize(val) ==
    val.sign \o pad2(val.hours) \o pad2(val.minutes)
    \o (IF val.seconds # Undefined THEN pad2(val.seconds) ELSE "")

\* val is an ICalDate record; a JavaScript Date is not modelled
DATE_serialize(val) == pad4(val.year) \o pad2(val.month) \o pad2(val.day)

\* val is an ICalDateTime record; a JavaScript Date is not modelled
DATE_TIME_serialize(val) ==
    pad4(val.year) \o pad2(val.month) \o pad2(val.day)
    \o "T" \o pad2(val.hour) \o pad2(val.minute) \o pad2(val.second)
    \o (IF val.utc THEN "Z" ELSE "")

\* s += `${n}${letter}` when n is truthy
UnitIfTruthy(n, letter) == IF Truthy(n) THEN JSString(n) \o letter ELSE ""

DURATION_serialize(val) ==
    LET sign == IF val.negative THEN "-" ELSE ""
        OrZeroDays(s) == IF Len(s) > 0 THEN s ELSE sign \o "P0D"
    IN  IF val.weeks # Undefined THEN sign \o "P" \o JSString(val.weeks) \o "W"
        ELSE OrZeroDays(
                 sign \o "P" \o UnitIfTruthy(val.days, "D")
                 \o (IF Truthy(val.hours) \/ Truthy(val.minutes) \/ Truthy(val.seconds)
                     THEN "T" \o UnitIfTruthy(val.hours, "H")
                          \o UnitIfTruthy(val.minutes, "M")
                          \o UnitIfTruthy(val.seconds, "S")
                     ELSE ""))

PERIOD_serialize(val) ==
    DATE_TIME_serialize(val.start) \o "/"
    \o (IF val.end.type = "duration" THEN DURATION_serialize(val.end)
        ELSE DATE_TIME_serialize(val.end))

\* the part for an integer list: pushed when the list is defined and not empty
IntsPart(key, v) ==
    IF v # Undefined /\ Len(v.list) > 0
    THEN <<key \o "=" \o Join([i \in 1..Len(v.list) |-> JSString(v.list[i])], ",")>>
    ELSE <<>>

\* one entry of the BYDAY part
ByDayText(d) == IF d.ordwk # Undefined THEN JSString(d.ordwk) \o d.day ELSE d.day

\* val.f: undefined when val has no such property, as on a string
Field(val, f) == IF f \in DOMAIN val THEN val[f] ELSE Undefined

RECUR_serialize(val) ==
    Join(<<"FREQ=" \o (IF "freq" \in DOMAIN val THEN val.freq ELSE "undefined")>>
         \o (IF Field(val, "until") # Undefined
             THEN <<"UNTIL=" \o (IF val.until.type = "date"
                                 THEN DATE_serialize(val.until)
                                 ELSE DATE_TIME_serialize(val.until))>>
             ELSE <<>>)
         \o (IF Field(val, "count") # Undefined
             THEN <<"COUNT=" \o JSString(val.count)>> ELSE <<>>)
         \o (IF Field(val, "interval") # Undefined
             THEN <<"INTERVAL=" \o JSString(val.interval)>> ELSE <<>>)
         \o IntsPart("BYSECOND", Field(val, "bysecond"))
         \o IntsPart("BYMINUTE", Field(val, "byminute"))
         \o IntsPart("BYHOUR", Field(val, "byhour"))
         \o (IF Field(val, "byday") # Undefined /\ Len(val.byday.list) > 0
             THEN <<"BYDAY=" \o Join([i \in 1..Len(val.byday.list) |->
                                         ByDayText(val.byday.list[i])], ",")>>
             ELSE <<>>)
         \o IntsPart("BYMONTHDAY", Field(val, "bymonthday"))
         \o IntsPart("BYYEARDAY", Field(val, "byyearday"))
         \o IntsPart("BYWEEKNO", Field(val, "byweekno"))
         \o IntsPart("BYMONTH", Field(val, "bymonth"))
         \o IntsPart("BYSETPOS", Field(val, "bysetpos"))
         \o (IF Field(val, "wkst") # Undefined /\ Len(val.wkst.str) > 0
             THEN <<"WKST=" \o val.wkst.str>> ELSE <<>>),
         ";")

\* CODECS[typeName].serialize(val)
CodecSerialize(typeName, val) ==
    CASE typeName = "TEXT"       -> TEXT_serialize(val)
      [] typeName \in {"URI", "CAL-ADDRESS"} -> val.str
      [] typeName = "INTEGER"    -> JSString(val)
      [] typeName = "UTC-OFFSET" -> UTC_OFFSET_serialize(val)
      [] typeName = "DATE"       -> DATE_serialize(val)
      [] typeName = "DATE-TIME"  -> DATE_TIME_serialize(val)
      [] typeName = "DURATION"   -> DURATION_serialize(val)
      [] typeName = "PERIOD"     -> PERIOD_serialize(val)
      [] typeName = "RECUR"      -> RECUR_serialize(val)

-----------------------------------------------------------------------------
(* A codec's serialize, then its parse on what serialize returned *)

\* a letter, the letter n, and the four characters TEXT.serialize escapes
TextAlphabet == {"a", "n", "\\", ",", ";", "\n"}

RECURSIVE TextsOfLen(_)
TextsOfLen(n) ==
    IF n = 0 THEN {""}
    ELSE {c \o t : c \in TextAlphabet, t \in TextsOfLen(n - 1)}

TextInputs == {Str(t) : t \in UNION {TextsOfLen(n) : n \in 0..MaxText}}

DateInputs ==
    { [type |-> "date", year |-> Num(y), month |-> Num(m), day |-> Num(d)] :
        y \in {1, 2024}, m \in {1, 12}, d \in {1, 31} }

\* date-times in UTC and floating, with and without a recorded tzid
DateTimeInputs ==
    { [type |-> "date-time", year |-> Num(2024), month |-> Num(1), day |-> Num(31),
       hour |-> Num(h), minute |-> Num(5), second |-> Num(sec), utc |-> u,
       tzid |-> z] :
        h \in {0, 23}, sec \in {0, 59}, u \in BOOLEAN,
        z \in {Undefined, Str("Europe/Berlin")} }

UtcOffsetInputs ==
    { [type |-> "utc-offset", sign |-> sg, hours |-> Num(h), minutes |-> Num(m),
       seconds |-> sec] :
        sg \in {"+", "-"}, h \in {0, 5, 12}, m \in {0, 30},
        sec \in {Undefined, Num(0), Num(15)} }

\* durations in weeks, and durations with every subset of days, hours,
\* minutes and seconds present, a present unit being zero or not
DurationInputs ==
    { Duration(neg, w, Undefined, Undefined, Undefined, Undefined) :
        neg \in BOOLEAN, w \in {Num(0), Num(2)} }
    \cup
    { Duration(neg, Undefined, d, h, m, sec) :
        neg \in BOOLEAN, d \in {Undefined, Num(0), Num(1)},
        h \in {Undefined, Num(0), Num(2)}, m \in {Undefined, Num(30)},
        sec \in {Undefined, Num(0), Num(5)} }

\* the date-times DATE_TIME.parse returns without parameters
PlainDateTimes == {v \in DateTimeInputs : v.tzid = Undefined /\ v.hour = Num(23)}

PeriodInputs ==
    { [type |-> "period", start |-> st, end |-> e] :
        st \in PlainDateTimes,
        e \in PlainDateTimes
              \cup {v \in DurationInputs : v.hours \in {Undefined, Num(2)}
                                            /\ v.seconds = Undefined} }

ByDayInputs ==
    {Undefined, List(<<>>), List(<<[day |-> "MO", ordwk |-> Undefined]>>),
     List(<<[day |-> "FR", ordwk |-> Num(-1)], [day |-> "SU", ordwk |-> Num(2)]>>)}

\* rules with each optional field absent or present, a present list being
\* empty or not
RecurInputs ==
    { [type |-> "recur", freq |-> f, until |-> u, count |-> c, interval |-> n,
       bysecond |-> Undefined, byminute |-> Undefined, byhour |-> Undefined,
       byday |-> bd, bymonthday |-> Undefined, byyearday |-> Undefined,
       byweekno |-> Undefined, bymonth |-> bm, bysetpos |-> bs, wkst |-> ws] :
        f \in {"DAILY", "YEARLY"},
        u \in {Undefined} \cup {v \in DateInputs : v.year = Num(2024) /\ v.day = Num(31)},
        c \in {Undefined, Num(0), Num(3)}, n \in {Undefined, Num(2)},
        bd \in ByDayInputs,
        bm \in {Undefined, List(<<>>), List(<<Num(1), Num(12)>>)},
        bs \in {Undefined, List(<<Num(-1)>>)},
        ws \in {Undefined, Str("SU")} }

\* the values handed to each codec's serialize
CodecInputs(typeName) ==
    CASE typeName = "TEXT"       -> TextInputs
      [] typeName = "UTC-OFFSET" -> UtcOffsetInputs
      [] typeName = "DATE"       -> DateInputs
      [] typeName = "DATE-TIME"  -> DateTimeInputs
      [] typeName = "DURATION"   -> DurationInputs
      [] typeName = "PERIOD"     -> PeriodInputs
      [] typeName = "RECUR"      -> RecurInputs

StructuredCodecs == {"UTC-OFFSET", "DATE", "DATE-TIME", "DURATION", "PERIOD", "RECUR"}

\* codec.serialize(arg) has been called
InitCodec ==
    /\ FreshComponent
    /\ IdleParse
    /\ IdleFold
    /\ IdleTokenize
    /\ kind \in {"TEXT"} \cup StructuredCodecs
    /\ arg \in CodecInputs(kind)
    /\ mid = <<>>
    /\ ret = <<>>
    /\ cpc = "serialize"

\* serialize runs and returns a string
SerializeValue ==
    /\ cpc = "serialize"
    /\ mid' = CodecSerialize(kind, arg)
    /\ cpc' = "parse"
    /\ UNCHANGED <<kind, arg, ret>>
    /\ UNCHANGED <<compVars, parseVars, foldVars, tokVars>>

\* parse runs on what serialize returned, without parameters
ParseBack ==
    /\ cpc = "parse"
    /\ ret' = CodecParse(kind, mid, <<>>)
    /\ cpc' = "done"
    /\ UNCHANGED <<kind, arg, mid>>
    /\ UNCHANGED <<compVars, parseVars, foldVars, tokVars>>

NextCodec ==
    \/ SerializeValue
    \/ ParseBack

SpecCodec == InitCodec /\ [][NextCodec]_vars

\* C17: TEXT.parse(TEXT.serialize(s)) = s for every string s, whatever the
\* combination and adjacency of commas, semicolons, backslashes and
\* newlines in it (a backslash directly followed by the letter n included).
C17_TextRoundTrip ==
    (kind = "TEXT" /\ cpc = "done") => ret = Ok(arg)

\* C18: for every value v a structured codec accepts, parse(serialize(v))
\* equals v field for field, optional fields that are absent, zero or an
\* empty list and a date-time's recorded tzid included (UTC-OFFSET, DATE,
\* DATE-TIME, DURATION, PERIOD and RECUR; the floats of GEO and the byte
\* buffers of BINARY are outside this model).
C18_StructuredRoundTrip ==
    (kind \in StructuredCodecs /\ cpc = "done") => ret = Ok(arg)

\* the text of a unit that is present in the value
PresentUnit(n, letter) == IF n # Undefined THEN JSString(n) \o letter ELSE ""

\* what follows P when exactly the present units are written
PresentBody(v) ==
    IF v.weeks # Undefined THEN PresentUnit(v.weeks, "W")
    ELSE PresentUnit(v.days, "D")
         \o (IF v.hours # Undefined \/ v.minutes # Undefined \/ v.seconds # Undefined
             THEN "T" \o PresentUnit(v.hours, "H") \o PresentUnit(v.minutes, "M")
                  \o PresentUnit(v.seconds, "S")
             ELSE "")

\* C19: DURATION.serialize emits exactly the units present in the value and
\* omits the absent ones, and the body after P is never empty: a value
\* without any unit is written P0D, after the sign when it is negative.
C19_DurationUnitsEmitted ==
    (kind = "DURATION" /\ cpc \in {"parse", "done"}) =>
        mid = (IF arg.negative THEN "-" ELSE "") \o "P"
              \o (IF Len(PresentBody(arg)) = 0 THEN "0D" ELSE PresentBody(arg))

-----------------------------------------------------------------------------
(* RECUR.parse on a rule, then RECUR.serialize on what it returned *)

\* KEY=value pairs: two with the key FREQ up to case, one with white space
\* before its key
RulePairs ==
    {"FREQ=DAILY", "freq=WEEKLY", "COUNT=3", "BYDAY=MO,-1FR", "UNTIL=20240131",
     "WKST=SU", " INTERVAL=2"}

RuleInputs ==
    {Join(ps, ";") : ps \in UNION {[1..n -> RulePairs] : n \in 1..MaxPairs}}

\* RECUR.parse(arg) has been called
InitRecur ==
    /\ FreshComponent
    /\ IdleParse
    /\ IdleFold
    /\ IdleTokenize
    /\ kind = "RECUR"
    /\ arg \in RuleInputs
    /\ mid = <<>>
    /\ ret = <<>>
    /\ cpc = "parse-rule"

\* RECUR.parse runs: it returns a rule or throws
ParseRule ==
    /\ cpc = "parse-rule"
    /\ LET OfParsed(r) ==
               /\ mid' = r
               /\ cpc' = IF r.ok THEN "serialize-rule" ELSE "done"
               /\ ret' = IF r.ok THEN ret ELSE Thrown
       IN  OfParsed(RECUR_parse(arg))
    /\ UNCHANGED <<kind, arg>>
    /\ UNCHANGED <<compVars, parseVars, foldVars, tokVars>>

\* RECUR.serialize runs on the rule RECUR.parse returned
SerializeRule ==
    /\ cpc = "serialize-rule"
    /\ ret' = Ok(RECUR_serialize(mid.v))
    /\ cpc' = "done"
    /\ UNCHANGED <<kind, arg, mid>>
    /\ UNCHANGED <<compVars, parseVars, foldVars, tokVars>>

NextRecur ==
    \/ ParseRule
    \/ SerializeRule

SpecRecur == InitRecur /\ [][NextRecur]_vars

\* the outcome of RECUR.serialize(RECUR.parse(raw)): the string, or the
\* Error RECUR.parse throws
Canonical(raw) ==
    LET OfParsed(r) == IF r.ok THEN Ok(RECUR_serialize(r.v)) ELSE Thrown
    IN  OfParsed(RECUR_parse(raw))

\* both calls threw, or both returned the same string
SameOutcome(a, b) == a.ok = b.ok /\ (a.ok => a.v = b.v)

\* the pairs of arg, and the rules made of the same pairs in every order
Pairs == Split(arg, ";")

Reorderings ==
    { Join([i \in 1..Len(Pairs) |-> Pairs[f[i]]], ";") :
        f \in Permutations(1..Len(Pairs)) }

RecurOrder ==
    <<"FREQ", "UNTIL", "COUNT", "INTERVAL", "BYSECOND", "BYMINUTE", "BYHOUR",
      "BYDAY", "BYMONTHDAY", "BYYEARDAY", "BYWEEKNO", "BYMONTH", "BYSETPOS", "WKST">>

Rank(key) == CHOOSE i \in 1..Len(RecurOrder) : RecurOrder[i] = key

PartKey(part) == ToUpper(Slice(part, 0, IndexOf(part, "=")))

\* the parts of text start with FREQ, follow the fixed order, and have only
\* keys that arg has
InFixedOrder(text) ==
    LET parts == Split(text, ";")
    IN  /\ PartKey(parts[1]) = "FREQ"
        /\ \A i \in 1..Len(parts) :
              /\ PartKey(parts[i]) \in {RecurOrder[j] : j \in 1..Len(RecurOrder)}
              /\ \E j \in 1..Len(Pairs) : PartKey(Trim(Pairs[j])) = PartKey(parts[i])
        /\ \A i \in 1..(Len(parts) - 1) :
              Rank(PartKey(parts[i])) < Rank(PartKey(parts[i + 1]))

\* C20: RECUR.parse does not depend on the order of the KEY=value pairs of
\* its input and RECUR.serialize emits the parts in the fixed order FREQ,
\* UNTIL, COUNT, INTERVAL, BYSECOND, BYMINUTE, BYHOUR, BYDAY, BYMONTHDAY,
\* BYYEARDAY, BYWEEKNO, BYMONTH, BYSETPOS, WKST without the absent ones, so
\* RECUR.serialize(RECUR.parse(r)) is the same string for every permutation
\* of the pairs of r.
C20_RecurOrderIndependent ==
    cpc = "done" =>
        /\ \A raw \in Reorderings : SameOutcome(Canonical(raw), ret)
        /\ ret.ok => InFixedOrder(ret.v)

\* no key occurs in two pairs, upper and lower case taken as equal
DistinctKeys ==
    \A i, j \in 1..Len(Pairs) : PartKey(Pairs[i]) = PartKey(Pairs[j]) => i = j

\* no pair begins or ends with white space
PlainPairs == \A i \in 1..Len(Pairs) : Trim(Pairs[i]) = Pairs[i]

\* C20 amended: for a rule r in which no key occurs twice and no pair begins
\* or ends with white space, RECUR.serialize(RECUR.parse(r)) is the same for
\* every permutation of the pairs of r, and its parts are in the fixed
\* order without the absent ones.
C20_RecurOrderIndependentDistinctKeys ==
    (cpc = "done" /\ DistinctKeys /\ PlainPairs) =>
        /\ \A raw \in Reorderings : SameOutcome(Canonical(raw), ret)
        /\ ret.ok => InFixedOrder(ret.v)

\* C20 witness: three pairs given in reverse of the fixed order came out in
\* the fixed order
C20_Witness_Reordered ==
    /\ cpc = "done"
    /\ arg = "WKST=SU;COUNT=3;FREQ=DAILY"
    /\ ret = Ok("FREQ=DAILY;COUNT=3;WKST=SU")

-----------------------------------------------------------------------------
(* The index of the property store against its ordered list *)

\* the names the ordered list or the index of the component knows
StoredNames == {props[i].name : i \in 1..Len(props)} \cup DOMAIN index

\* C28: after any sequence of addProperty, appendProperty, setProperty and
\* removeProperty calls the per-name index agrees with the ordered property
\* list: for every name, getProperties(name) is exactly the subsequence of
\* the ordered list with that name, in the same order.
C28_IndexAgreesWithList ==
    \A name \in StoredNames : getProperties(Component, name) = Named(props, name)


-----------------------------------------------------------------------------
(* Claims about nested components in the parse result *)

RECURSIVE FoldSum(_)
\* the sum of a sequence of numbers
FoldSum(xs) == IF Len(xs) = 0 THEN 0 ELSE Head(xs) + FoldSum(Tail(xs))

RECURSIVE SubtreeSize(_, _)
\* the number of raw nodes in the subtree of node i, itself included
SubtreeSize(ns, i) ==
    LET SumOver(sizes) == 1 + FoldSum(sizes)
    IN  SumOver([j \in 1..Len(ns[i].children) |-> SubtreeSize(ns, ns[i].children[j])])

RECURSIVE CompSize(_)
\* the number of components in the tree of c, itself included
CompSize(c) ==
    LET SumOver(sizes) == 1 + FoldSum(sizes)
    IN  SumOver([j \in 1..Len(c.components) |-> CompSize(c.components[j])])

\* the raw node that parse turns into its Calendar: the first top-level
\* VCALENDAR, or the synthetic root when the Calendar is a wrapper
ParsedNode ==
    IF CalendarPositions # {} THEN TopLevel[FirstCalendarPosition] ELSE Root

\* C29: every component opened by a BEGIN token while another component is
\* open appears in the parse result as a child of that enclosing component,
\* whatever the enclosing type: the Calendar that parse returns holds as many
\* components as the raw subtree it was built from holds nodes.
C29_NoBegunComponentDropped ==
    (pc = "done" /\ api = "parse" /\ ~raised) =>
        CompSize(result[1]) = SubtreeSize(nodes, ParsedNode)

-----------------------------------------------------------------------------
(* Property.toContentLine (src/src/property.ts) *)

\* /[;:,]/.test(valStr)
needsQuote(valStr) == \E c \in {";", ":", ","} : Includes(valStr, c)

\* the parameters without any quoting
serializeParamsBare(params) ==
    LET valStr(e) == IF "vals" \in DOMAIN e THEN Join(e.vals, ",") ELSE e.v
    IN  Join([i \in 1..Len(params) |->
                 ";" \o params[i].k \o "=" \o valStr(params[i])], "")

serializeParams(params) ==
    LET valStr(e) == IF "vals" \in DOMAIN e THEN Join(e.vals, ",") ELSE e.v
        Quoted(s) == IF needsQuote(s) THEN "\"" \o s \o "\"" ELSE s
    IN  Join([i \in 1..Len(params) |->
                 ";" \o params[i].k \o "=" \o Quoted(valStr(params[i]))], "")

\* String(v ?? '') of a string or a number
StringOf(v) == IF "str" \in DOMAIN v THEN v.str ELSE JSString(v)

\* PERIOD.serialize hands val.start to DATE_TIME.serialize, which reads
\* val.year: a TypeError when val.start is undefined
SerializeRaises(typeName, v) == typeName = "PERIOD" /\ Field(v, "start") = Undefined

\* the closure serialize of serializeValue: codec names the entry of CODECS,
\* or is "" when CODECS has none
SerializeWith(codec, v) ==
    IF codec = "" THEN Ok(StringOf(v))
    ELSE IF SerializeRaises(codec, v) THEN Thrown
    ELSE Ok(CodecSerialize(codec, v))

\* the body of serializeValue after the codec lookup
serializeValueWith(codec, prop) ==
    LET OfParts(parts) ==
            IF \A i \in 1..Len(parts) : parts[i].ok
            THEN Ok(Join([i \in 1..Len(parts) |-> parts[i].v], ","))
            ELSE Thrown
    IN  IF "list" \in DOMAIN prop.value
        THEN IF IsMulti(prop.name)
             THEN OfParts([i \in 1..Len(prop.value.list) |->
                              SerializeWith(codec, prop.value.list[i])])
             ELSE SerializeWith(codec, IF Len(prop.value.list) > 0
                                       THEN prop.value.list[1] ELSE Str(""))
        ELSE SerializeWith(codec, prop.value)

\* const codec = CODECS[typeName]
CodecOrNone(typeName) == IF typeName \in CodecNames THEN typeName ELSE ""

serializeValue(prop) ==
    serializeValueWith(CodecOrNone(resolveValueType(prop.name, prop.params)), prop)

\* `${this.name}${paramStr}:${valueStr}` around a serialized value
LineOf(prop, valueStr) ==
    IF valueStr.ok
    THEN Ok(prop.name \o serializeParams(prop.params) \o ":" \o valueStr.v)
    ELSE Thrown

toContentLine(prop) == LineOf(prop, serializeValue(prop))

-----------------------------------------------------------------------------
(* A property: parseProperty or the constructor, then toContentLine *)

\* one content line's name, flattened parameters and raw value, as buildTree
\* hands them to parseProperty
RawProperty(n, ps, v) == [name |-> n, params |-> ps, value |-> v]

PropertyNames ==
    {"RDATE", "CATEGORIES", "FREEBUSY", "RRULE", "SUMMARY", "X-PROP", "DTSTART"}

ParamInputs ==
    { <<>>,
      <<[k |-> "VALUE", v |-> "DATE"]>>,
      <<[k |-> "VALUE", v |-> "date-time"]>>,
      <<[k |-> "VALUE", v |-> "FOO"]>>,
      <<[k |-> "VALUE", v |-> "PERIOD"]>>,
      <<[k |-> "VALUE", v |-> ""]>>,
      <<[k |-> "CN", v |-> "Doe, J"]>>,
      <<[k |-> "ALTREP", v |-> "http://h"], [k |-> "X-A", v |-> "p;q"]>>,
      <<[k |-> "X-B", v |-> "plain"]>> }

RawValueInputs ==
    { "19970101,19970120", "a\\,b,c", "a\\\\,b", "19970308T160000Z/PT3H",
      "FREQ=DAILY;COUNT=2", "19970101T120000Z", "x" }

RawProperties ==
    {RawProperty(n, ps, v) : n \in PropertyNames, ps \in ParamInputs, v \in RawValueInputs}

\* the arguments of new Property(name, value, params): parameters with
\* several values are lists
NewArgs(n, val, ps) == [name |-> n, typed |-> val, params |-> ps]

ListParamInputs ==
    { <<[k |-> "MEMBER", vals |-> <<"a", "b">>]>>,
      <<[k |-> "ROLE", vals |-> <<"x">>], [k |-> "MEMBER", vals |-> <<"a", "b">>]>>,
      <<[k |-> "DIR", vals |-> <<"p:q", "r">>]>>,
      <<[k |-> "CN", v |-> "a b"], [k |-> "MEMBER", vals |-> <<>>]>> }

BuiltProperties ==
    {NewArgs(n, val, ps) : n \in {"attendee", "SUMMARY"},
                           val \in {Str("mailto:a@b"), Str("a;b")},
                           ps \in ListParamInputs}

\* a caller holds the arguments of parseProperty or of the constructor
InitProperty ==
    /\ FreshComponent
    /\ IdleParse
    /\ IdleFold
    /\ IdleTokenize
    /\ kind = "property"
    /\ arg \in RawProperties \cup BuiltProperties
    /\ mid = Undefined
    /\ ret = Undefined
    /\ cpc = "start"

\* parseProperty(name, rawValue, params)
ParseProperty ==
    /\ cpc = "start" /\ "value" \in DOMAIN arg
    /\ mid' = parseProperty(arg.name, arg.value, arg.params).prop
    /\ cpc' = "to-content-line"
    /\ UNCHANGED <<kind, arg, ret>>
    /\ UNCHANGED <<compVars, parseVars, foldVars, tokVars>>

\* new Property(name, value, params)
NewProperty ==
    /\ cpc = "start" /\ "typed" \in DOMAIN arg
    /\ mid' = Property(0, arg.name, arg.typed, arg.params, Undefined)
    /\ cpc' = "to-content-line"
    /\ UNCHANGED <<kind, arg, ret>>
    /\ UNCHANGED <<compVars, parseVars, foldVars, tokVars>>

\* prop.toContentLine()
ToContentLine ==
    /\ cpc = "to-content-line"
    /\ ret' = toContentLine(mid)
    /\ cpc' = "done"
    /\ UNCHANGED <<kind, arg, mid>>
    /\ UNCHANGED <<compVars, parseVars, foldVars, tokVars>>

NextProperty ==
    \/ ParseProperty
    \/ NewProperty
    \/ ToContentLine

SpecProperty == InitProperty /\ [][NextProperty]_vars

-----------------------------------------------------------------------------
(* Claims about multi-valued properties *)

RECURSIVE Escaped(_, _)
\* the character at position i follows a backslash that is not itself escaped
Escaped(raw, i) == i > 1 /\ CharAt(raw, i - 1) = "\\" /\ ~Escaped(raw, i - 1)

\* the positions of the commas that no backslash escapes
CommaSeparators(raw) == {i \in 1..Len(raw) : CharAt(raw, i) = "," /\ ~Escaped(raw, i)}

\* the position of the k-th separator; 0 before the first, past the end
\* after the last
CommaSeparatorAt(raw, k) ==
    IF k = 0 THEN 0
    ELSE IF k > Cardinality(CommaSeparators(raw)) THEN Len(raw) + 1
    ELSE CHOOSE i \in CommaSeparators(raw) :
             Cardinality({j \in CommaSeparators(raw) : j < i}) = k - 1

\* the k-th item: the text between two neighbouring separators
ItemAt(raw, k) ==
    SubSeq(raw, CommaSeparatorAt(raw, k - 1) + 1, CommaSeparatorAt(raw, k) - 1)

\* the outcome of the resolved codec on the k-th item of the raw value
ItemParsed(k) ==
    CodecParse(CodecFor(resolveValueType(arg.name, arg.params)),
               ItemAt(arg.value, k), arg.params)

ItemCount == Cardinality(CommaSeparators(arg.value)) + 1

RDateExample ==
    RawProperty("RDATE", <<[k |-> "VALUE", v |-> "DATE"]>>, "19970101,19970120")

-----------------------------------------------------------------------------
(* Claims about the parameters of a content line *)

\* the values of a parameter, comma-joined when it holds a list
JoinedValue(e) == IF "vals" \in DOMAIN e THEN Join(e.vals, ",") ELSE e.v

HasSpecial(text) == Includes(text, ";") \/ Includes(text, ":") \/ Includes(text, ",")

RECURSIVE ExpectedParams(_)
\* ;NAME=value for every parameter, quoted exactly when the joined value
\* holds ';', ':' or ','
ExpectedParams(ps) ==
    IF Len(ps) = 0 THEN ""
    ELSE ";" \o Head(ps).k \o "="
         \o (IF HasSpecial(JoinedValue(Head(ps)))
             THEN "\"" \o JoinedValue(Head(ps)) \o "\""
             ELSE JoinedValue(Head(ps)))
         \o ExpectedParams(Tail(ps))

\* C24: toContentLine serializes each parameter as ;NAME=value, comma-joining
\* the values of a multi-value parameter first and then enclosing the value
\* in double quotes if and only if it contains ';', ':' or ','; a value
\* without these characters is emitted bare.
C24_ParamsQuotedIffSpecial ==
    (cpc = "done" /\ ret.ok) =>
        StartsWith(ret.v, mid.name \o ExpectedParams(mid.params) \o ":")

\* C24 witness: a one-value list emitted bare before a two-value list that
\* is joined and then quoted
C24_Witness_JoinedThenQuoted ==
    /\ cpc = "done"
    /\ mid.params = <<[k |-> "ROLE", vals |-> <<"x">>],
                      [k |-> "MEMBER", vals |-> <<"a", "b">>]>>
    /\ ret = Ok("ATTENDEE;ROLE=x;MEMBER=\"a,b\":mailto:a@b")

-----------------------------------------------------------------------------
(* Claims about type resolution and the raw-string fallback *)

\* the parameter is present with a text that is not empty
HasParam(params, key) == \E i \in 1..Len(params) : params[i].k = key /\ params[i].v # ""

\* the effective value type as stated: the uppercased VALUE parameter when
\* one is present, else the registry default of the name, else TEXT
StatedType(name, params) ==
    IF HasParam(params, "VALUE")
    THEN ToUpper(params[CHOOSE i \in 1..Len(params) : params[i].k = "VALUE"].v)
    ELSE IF name \in DOMAIN PROPERTY_REGISTRY
         THEN PROPERTY_REGISTRY[name].defaultType
         ELSE "TEXT"

\* C21: the effective value type of a property is the uppercased VALUE
\* parameter when one is present, else the registry default type of the
\* property name, else TEXT; the same resolution is used when parsing the
\* raw value and when serializing the stored value, so a property is always
\* serialized by the codec that parsed it.
C21_SameCodecBothWays ==
    (cpc = "done" /\ "value" \in DOMAIN arg) =>
        /\ resolveValueType(arg.name, arg.params) = StatedType(arg.name, arg.params)
        /\ resolveValueType(mid.name, mid.params) = StatedType(arg.name, arg.params)
        /\ SameOutcome(ret,
                       LineOf(mid, serializeValueWith(
                                       CodecFor(StatedType(arg.name, arg.params)), mid)))

\* the codec raised on the raw value, or on one of its items
CodecRaised == \E k \in 1..(IF IsMulti(arg.name) THEN ItemCount ELSE 1) :
                   ~(IF IsMulti(arg.name) THEN ItemParsed(k)
                     ELSE CodecParse(CodecFor(resolveValueType(arg.name, arg.params)),
                                     arg.value, arg.params)).ok

\* C30: a property whose value was stored through the raw-string fallback
\* serializes with toContentLine to a content line whose value is that same
\* raw string: serialization neither raises nor alters the value.
C30_FallbackSerializesRaw ==
    (cpc = "done" /\ "value" \in DOMAIN arg /\ CodecRaised) =>
        /\ mid.value = Str(arg.value)
        /\ ret.ok
        /\ ret.v = arg.name \o serializeParams(arg.params) \o ":" \o arg.value

-----------------------------------------------------------------------------
(* Component.toString and the strict validation of the typed components    *)
(* (src/src/component.ts, journal.ts, todo.ts, freebusy.ts, timezone.ts,    *)
(* calendar.ts, alarm.ts)                                                   *)

\* the characters U+0020 to U+005F and U+0061 to U+007E in code order
UpToUnderscore ==
    " !\"#$%&'()*+,-./0123456789:;<=>?@ABCDEFGHIJKLMNOPQRSTUVWXYZ[\\]^_"

FromSmallA == "abcdefghijklmnopqrstuvwxyz{|}~"

\* the UTF-16 code unit of a character of the text the serializer handles
UnitOf(c) ==
    IF c = "\n" THEN 10
    ELSE IF c = "\r" THEN 13
    ELSE IF c = "\t" THEN 9
    ELSE IF \E i \in 1..Len(FromSmallA) : CharAt(FromSmallA, i) = c
         THEN 96 + (CHOOSE i \in 1..Len(FromSmallA) : CharAt(FromSmallA, i) = c)
         ELSE 31 + (CHOOSE i \in 1..Len(UpToUnderscore) : CharAt(UpToUnderscore, i) = c)

Units(text) == [i \in 1..Len(text) |-> UnitOf(CharAt(text, i))]

CharOf(u) ==
    IF u = 10 THEN "\n"
    ELSE IF u = 13 THEN "\r"
    ELSE IF u = 9 THEN "\t"
    ELSE IF u >= 97 THEN CharAt(FromSmallA, u - 96)
    ELSE CharAt(UpToUnderscore, u - 31)

RECURSIVE TextOfUnits(_)
\* the string of a list of code units
TextOfUnits(us) ==
    IF Len(us) = 0 THEN ""
    ELSE IF Len(us) = 1 THEN CharOf(us[1])
    ELSE TextOfUnits(SubSeq(us, 1, Len(us) \div 2))
         \o TextOfUnits(SubSeq(us, Len(us) \div 2 + 1, Len(us)))

\* foldLine on a string
foldText(text) == TextOfUnits(foldLine(Units(text)))

\* throw new Error(msg), or an error the runtime raises
Raise(msg) == [ok |-> FALSE, v |-> Undefined, err |-> msg]

\* prop.scalar: the value, or the first value of a list (null when empty)
Scalar(prop) ==
    IF "list" \in DOMAIN prop.value
    THEN (IF Len(prop.value.list) > 0 THEN prop.value.list[1] ELSE Undefined)
    ELSE prop.value

\* !this.getProperty(name)
NoProperty(c, name) == Len(getProperties(c, name)) = 0

\* !(this.getProperty(name)?.text ?? null): no property, a value that is not
\* a string, or the empty string
NoText(c, name) ==
    \/ NoProperty(c, name)
    \/ "str" \notin DOMAIN Scalar(getProperties(c, name)[1])
    \/ Scalar(getProperties(c, name)[1]).str = ""

\* the getters of TimezoneRule: null unless the value is an object of the type
NoTyped(c, name, type) ==
    \/ NoProperty(c, name)
    \/ "type" \notin DOMAIN Scalar(getProperties(c, name)[1])
    \/ Scalar(getProperties(c, name)[1]).type # type

\* the first check of the class's toString that fails, as a list of at most
\* one message
Checks(pairs) ==
    LET failed == SelectSeq(pairs, LAMBDA pr : pr.fails)
    IN  IF Len(failed) = 0 THEN <<>> ELSE <<failed[1].msg>>

Check(fails, msg) == [fails |-> fails, msg |-> msg]

UidAndStamp(c) ==
    <<Check(NoText(c, "UID"), c.type \o ": UID is required"),
      Check(NoProperty(c, "DTSTAMP"), c.type \o ": DTSTAMP is required")>>

\* the validation a class's toString runs before super.toString()
Validation(c) ==
    CASE c.cls = "Calendar" ->
            Checks(<<Check(NoText(c, "PRODID"), "VCALENDAR: PRODID is required"),
                     Check(NoText(c, "VERSION"), "VCALENDAR: VERSION is required")>>)
      [] c.cls \in {"Event", "Journal", "FreeBusy"} -> Checks(UidAndStamp(c))
      [] c.cls = "Todo" ->
            Checks(UidAndStamp(c)
                   \o <<Check(~NoProperty(c, "DUE") /\ ~NoProperty(c, "DURATION"),
                              "VTODO: DUE and DURATION MUST NOT both be present")>>)
      [] c.cls = "Alarm" ->
            Checks(<<Check(NoText(c, "ACTION"), "VALARM: ACTION is required"),
                     Check(NoProperty(c, "TRIGGER"), "VALARM: TRIGGER is required")>>)
      [] c.cls = "Timezone" ->
            Checks(<<Check(NoText(c, "TZID"), "VTIMEZONE: TZID is required"),
                     Check(Len(c.components) = 0,
                           "VTIMEZONE: at least one STANDARD or DAYLIGHT sub-component is required")>>)
      [] c.cls \in {"Standard", "Daylight"} ->
            Checks(<<Check(NoTyped(c, "DTSTART", "date-time"),
                           c.type \o ": DTSTART is required"),
                     Check(NoTyped(c, "TZOFFSETFROM", "utc-offset"),
                           c.type \o ": TZOFFSETFROM is required"),
                     Check(NoTyped(c, "TZOFFSETTO", "utc-offset"),
                           c.type \o ": TZOFFSETTO is required")>>)
      [] c.cls = "Cycle" -> <<"RangeError: Maximum call stack size exceeded">>
      [] OTHER -> <<>>

\* the first outcome that is a failure, as a list of at most one outcome
FirstFailure(outcomes) ==
    LET failed == SelectSeq(outcomes, LAMBDA o : ~o.ok)
    IN  IF Len(failed) = 0 THEN <<>> ELSE <<failed[1]>>

RECURSIVE toString(_)
\* the class's validation, then Component.toString: the lines pushed and
\* joined, or the first failure raised on the way
toString(c) ==
    LET Lines(propLines, kidTexts) ==
            <<"BEGIN:" \o c.type>>
            \o [i \in 1..Len(propLines) |-> foldText(propLines[i].v)]
            \o [j \in 1..Len(kidTexts) |-> kidTexts[j].v]
            \o <<"END:" \o c.type>>
        OfChildren(propLines, kidTexts, failed) ==
            IF Len(failed) > 0 THEN failed[1]
            ELSE Ok(Join(Lines(propLines, kidTexts), "\r\n"))
        OfKids(propLines, kidTexts) ==
            OfChildren(propLines, kidTexts, FirstFailure(kidTexts))
        OfProps(propLines, failed) ==
            IF Len(failed) > 0 THEN Raise("TypeError")
            ELSE OfKids(propLines,
                        [j \in 1..Len(c.components) |-> toString(c.components[j])])
        OfLines(propLines) == OfProps(propLines, FirstFailure(propLines))
        OfChecks(msgs) ==
            IF Len(msgs) > 0 THEN Raise(msgs[1])
            ELSE OfLines([i \in 1..Len(c.props) |-> toContentLine(c.props[i])])
    IN  OfChecks(Validation(c))

-----------------------------------------------------------------------------
(* buildTree and parse as functions of the text (src/src/parse.ts) *)

\* a ContentLine of the tokenizer as buildTree reads it: the values of every
\* parameter as a list
TokenOf(cl) ==
    [name   |-> cl.name,
     params |-> [i \in 1..Len(cl.params) |->
                    [k    |-> cl.params[i].k,
                     vals |-> IF "str" \in DOMAIN cl.params[i].v
                              THEN <<cl.params[i].v.str>>
                              ELSE cl.params[i].v.list]],
     value  |-> cl.value]

RECURSIVE buildTreeFrom(_, _, _)
\* the for-of loop of buildTree from token i on, ns being the raw nodes and
\* stk the stack of open nodes; the stack always holds the root
buildTreeFrom(toks, ns, stk) ==
    IF Len(toks) = 0 THEN ns
    ELSE LET tok     == Head(toks)
             current == stk[Len(stk)]
         IN  IF tok.name = "BEGIN"
             THEN buildTreeFrom(Tail(toks),
                      Append([ns EXCEPT ![current].children = Append(@, Len(ns) + 1)],
                             RawNode(Trim(ToUpper(tok.value)))),
                      Append(stk, Len(ns) + 1))
             ELSE IF tok.name = "END"
             THEN buildTreeFrom(Tail(toks), ns, PopUnlessRoot(stk))
             ELSE buildTreeFrom(Tail(toks),
                      [ns EXCEPT ![current].props =
                          Append(@, [name |-> tok.name,
                                     params |-> FlattenParams(tok.params),
                                     value |-> tok.value])],
                      stk)

\* buildTree(src)
buildTree(text) ==
    LET OfTokens(cls) ==
            buildTreeFrom([i \in 1..Len(cls) |-> TokenOf(cls[i])],
                          <<RawNode("ROOT")>>, <<Root>>)
    IN  OfTokens(tokenize(text))

\* parse(src): the Calendar returned
parseText(text) == parse(buildTree(text)).comp

-----------------------------------------------------------------------------
(* Components built through the API, serialized, parsed and serialized     *)
(* again                                                                    *)

MaxCalls == 2

MaxParsed == 60

\* new X(): a component of class cls without properties or children; the
\* children of a component in the heap are references to other components
NewComponent(cls, type) ==
    [cls |-> cls, type |-> type, props |-> <<>>, index |-> <<>>, components |-> <<>>]

\* c.setProperty(name, value), which every typed setter calls
WithProperty(c, name, value) ==
    LET OfStore(store) == [c EXCEPT !.props = store.props, !.index = store.index]
    IN  OfStore(setProperty([props |-> c.props, index |-> c.index], 0, name,
                            [present |-> TRUE, v |-> value], <<>>))

\* c.appendProperty(name, value, params)
WithAppended(c, name, value, params) ==
    LET OfStore(store) == [c EXCEPT !.props = store.props, !.index = store.index]
    IN  OfStore(appendProperty([props |-> c.props, index |-> c.index], 0, name,
                               value, params))

StampValue ==
    [type |-> "date-time", year |-> Num(2024), month |-> Num(1), day |-> Num(31),
     hour |-> Num(23), minute |-> Num(5), second |-> Num(0), utc |-> TRUE,
     tzid |-> Undefined]

OffsetValue ==
    [type |-> "utc-offset", sign |-> "+", hours |-> Num(1), minutes |-> Num(0),
     seconds |-> Undefined]

HourValue == Duration(FALSE, Undefined, Undefined, Num(1), Undefined, Undefined)

LongSummary == "0123456789012345678901234567890123456789012345678901234567890123456789"

\* the components a caller has constructed and filled through the setters
CalendarBuilt ==
    WithProperty(WithProperty(NewComponent("Calendar", "VCALENDAR"),
                              "PRODID", Str("p")), "VERSION", Str("2.0"))

EventBuilt ==
    WithProperty(WithProperty(NewComponent("Event", "VEVENT"),
                              "UID", Str("u")), "DTSTAMP", StampValue)

TodoBuilt ==
    WithProperty(WithProperty(WithProperty(NewComponent("Todo", "VTODO"),
                                           "UID", Str("t")), "DTSTAMP", StampValue),
                 "DUE", StampValue)

JournalBuilt ==
    WithProperty(WithProperty(WithProperty(NewComponent("Journal", "VJOURNAL"),
                                           "UID", Str("j")), "DTSTAMP", StampValue),
                 "SUMMARY", Str(LongSummary))

AlarmBuilt ==
    WithProperty(WithProperty(NewComponent("Alarm", "VALARM"),
                              "ACTION", Str("DISPLAY")), "TRIGGER", HourValue)

TimezoneBuilt == WithProperty(NewComponent("Timezone", "VTIMEZONE"), "TZID", Str("z"))

StandardBuilt ==
    WithProperty(WithProperty(WithProperty(NewComponent("Standard", "STANDARD"),
                                           "DTSTART", StampValue),
                              "TZOFFSETFROM", OffsetValue), "TZOFFSETTO", OffsetValue)

\* a generic component with a property of a VALUE type that has no codec
ExtensionBuilt ==
    WithAppended(NewComponent("Component", "X-EXT"), "X-A", Str("a\nb"),
                 <<[k |-> "VALUE", v |-> "FOO"]>>)

Heaps ==
    { <<CalendarBuilt, EventBuilt, AlarmBuilt>>,
      <<CalendarBuilt, TodoBuilt, ExtensionBuilt>>,
      <<CalendarBuilt, TimezoneBuilt, StandardBuilt>>,
      <<CalendarBuilt, JournalBuilt, EventBuilt>>,
      <<NewComponent("Calendar", "VCALENDAR"), NewComponent("Event", "VEVENT"),
        TimezoneBuilt>> }

\* the setter calls made: name and value
SetterCalls ==
    { [name |-> "UID", value |-> Str("")],
      [name |-> "UID", value |-> Str("v")],
      [name |-> "DURATION", value |-> HourValue],
      [name |-> "PRODID", value |-> Str("q")] }

RECURSIVE TreeOf(_, _, _)
\* the component at id with the components its toString visits in place of
\* the references; a path longer than the heap has a component twice, and
\* the recursion along it has no end
TreeOf(heap, id, fuel) ==
    IF fuel = 0 THEN NewComponent("Cycle", "")
    ELSE [heap[id] EXCEPT !.components =
             [j \in 1..Len(heap[id].components) |->
                 TreeOf(heap, heap[id].components[j], fuel - 1)]]

\* the caller holds three components
InitDocument ==
    /\ FreshComponent
    /\ IdleParse
    /\ IdleFold
    /\ IdleTokenize
    /\ kind = "document"
    /\ arg \in Heaps
    /\ mid = [calls |-> 0, root |-> 0]
    /\ ret = <<>>
    /\ cpc = "build"

\* parent.addComponent(child), or addEvent, addAlarm, ... which call it
AddComponent ==
    /\ cpc = "build" /\ mid.calls < MaxCalls
    /\ \E parent \in 1..Len(arg), child \in 1..Len(arg) :
          arg' = [arg EXCEPT ![parent].components = Append(@, child)]
    /\ mid' = [mid EXCEPT !.calls = @ + 1]
    /\ UNCHANGED <<kind, ret, cpc>>
    /\ UNCHANGED <<compVars, parseVars, foldVars, tokVars>>

\* a typed setter: this.setProperty(NAME, v)
CallSetter ==
    /\ cpc = "build" /\ mid.calls < MaxCalls
    /\ \E id \in 1..Len(arg), call \in SetterCalls :
          arg' = [arg EXCEPT ![id] = WithProperty(@, call.name, call.value)]
    /\ mid' = [mid EXCEPT !.calls = @ + 1]
    /\ UNCHANGED <<kind, ret, cpc>>
    /\ UNCHANGED <<compVars, parseVars, foldVars, tokVars>>

\* component.toString() on one of the components built
CallToString ==
    /\ cpc = "build"
    /\ \E id \in 1..Len(arg) :
          /\ mid' = [mid EXCEPT !.root = id]
          /\ ret' = <<toString(TreeOf(arg, id, Len(arg) + 1))>>
    /\ cpc' = "serialized"
    /\ UNCHANGED <<kind, arg>>
    /\ UNCHANGED <<compVars, parseVars, foldVars, tokVars>>

\* parse(text) on the text the last toString returned
ParseText ==
    /\ cpc \in {"serialized", "serialized again"}
    /\ ret[Len(ret)].ok
    /\ Len(ret[Len(ret)].v) <= MaxParsed
    /\ ret' = Append(ret, Ok(parseText(ret[Len(ret)].v)))
    /\ cpc' = IF cpc = "serialized" THEN "parsed" ELSE "parsed again"
    /\ UNCHANGED <<kind, arg, mid>>
    /\ UNCHANGED <<compVars, parseVars, foldVars, tokVars>>

\* toString() on the Calendar that parse returned
ToStringParsed ==
    /\ cpc = "parsed"
    /\ ret' = Append(ret, toString(ret[Len(ret)].v))
    /\ cpc' = "serialized again"
    /\ UNCHANGED <<kind, arg, mid>>
    /\ UNCHANGED <<compVars, parseVars, foldVars, tokVars>>

NextDocument ==
    \/ AddComponent
    \/ CallSetter
    \/ CallToString
    \/ ParseText
    \/ ToStringParsed

SpecDocument == InitDocument /\ [][NextDocument]_vars

-----------------------------------------------------------------------------
(* Claims about toString, validation, the component graph and the round    *)
(* trip of a document                                                       *)

\* the component toString was called on, with its descendants in place
RootTree == TreeOf(arg, mid.root, Len(arg) + 1)

NoBareLF(text) ==
    \A i \in 1..Len(text) :
        CharAt(text, i) = "\n" => (i > 1 /\ CharAt(text, i - 1) = "\r")

\* C23: Component.toString emits, in this order, the BEGIN:<TYPE> line, every
\* own property's folded content line in insertion order, every child
\* component's full serialization in insertion order, and the END:<TYPE>
\* line, joined by CRLF with no bare LF and no separator after the final END.
C23_ToStringOrderAndCRLF ==
    (cpc = "serialized" /\ ret[1].ok) =>
        /\ ret[1].v =
              Join(<<"BEGIN:" \o RootTree.type>>
                   \o [i \in 1..Len(RootTree.props) |->
                          foldText(toContentLine(RootTree.props[i]).v)]
                   \o [j \in 1..Len(RootTree.components) |->
                          toString(RootTree.components[j]).v]
                   \o <<"END:" \o RootTree.type>>, "\r\n")
        /\ EndsWith(ret[1].v, "END:" \o RootTree.type)
        /\ NoBareLF(ret[1].v)

\* the properties a class requires
RequiredNames(cls) ==
    CASE cls = "Calendar" -> {"PRODID", "VERSION"}
      [] cls \in {"Event", "Todo", "Journal", "FreeBusy"} -> {"UID", "DTSTAMP"}
      [] cls = "Alarm" -> {"ACTION", "TRIGGER"}
      [] cls = "Timezone" -> {"TZID"}
      [] cls \in {"Standard", "Daylight"} -> {"DTSTART", "TZOFFSETFROM", "TZOFFSETTO"}
      [] OTHER -> {}

HasNamed(c, name) == \E i \in 1..Len(c.props) : c.props[i].name = name

\* the failures a component calls for by itself
Complaints(c) ==
    {c.type \o ": " \o n \o " is required" : n \in {m \in RequiredNames(c.cls) : ~HasNamed(c, m)}}
    \cup (IF c.cls = "Timezone"
             /\ \A j \in 1..Len(c.components) :
                   c.components[j].cls \notin {"Standard", "Daylight"}
          THEN {"VTIMEZONE: at least one STANDARD or DAYLIGHT sub-component is required"}
          ELSE {})
    \cup (IF c.cls = "Todo" /\ HasNamed(c, "DUE") /\ HasNamed(c, "DURATION")
          THEN {"VTODO: DUE and DURATION MUST NOT both be present"}
          ELSE {})

RECURSIVE AllComplaints(_)
\* the failures the component and its descendants call for
AllComplaints(c) ==
    Complaints(c) \cup UNION {AllComplaints(c.components[j]) : j \in 1..Len(c.components)}

\* C25: required-field validation is lazy: no setter or add call raises, and
\* toString raises a failure naming the field exactly when a required
\* property of the component or of any descendant is missing, a Timezone has
\* no sub-rule or a Todo has both DUE and DURATION, and succeeds otherwise.
C25_LazyValidationExact ==
    /\ cpc = "build" => Len(ret) = 0
    /\ cpc = "serialized" =>
          IF AllComplaints(RootTree) = {} THEN ret[1].ok
          ELSE ~ret[1].ok /\ ret[1].err \in AllComplaints(RootTree)

\* how often a component is listed as a child in the heap
TimesListed(heap, id) ==
    FoldSum([p \in 1..Len(heap) |->
                Cardinality({j \in 1..Len(heap[p].components) :
                                heap[p].components[j] = id})])

RECURSIVE Descends(_, _, _, _)
\* id is found among the descendants of top within fuel levels
Descends(heap, top, id, fuel) ==
    fuel > 0 /\ \E j \in 1..Len(heap[top].components) :
                   \/ heap[top].components[j] = id
                   \/ Descends(heap, heap[top].components[j], id, fuel - 1)

\* C27: after any sequence of addComponent calls the component graph is a
\* tree: no component is a child of two parents or listed twice, and no
\* component is its own descendant, so toString's recursion terminates.
C27_ComponentGraphIsTree ==
    kind = "document" =>
        /\ \A id \in 1..Len(arg) :
              /\ TimesListed(arg, id) <= 1
              /\ ~Descends(arg, id, id, Len(arg))
        /\ (cpc = "serialized" /\ ~ret[1].ok) =>
              ret[1].err # "RangeError: Maximum call stack size exceeded"

RECURSIVE Observable(_)
\* the observable structure of a component: types and nesting, and the names,
\* parameters and values of the properties in order
Observable(c) ==
    [type       |-> c.type,
     props      |-> [i \in 1..Len(c.props) |->
                        [name |-> c.props[i].name, params |-> c.props[i].params,
                         value |-> c.props[i].value]],
     components |-> [j \in 1..Len(c.components) |-> Observable(c.components[j])]]

\* C26: for any document d producible by the serializer (the toString of any
\* structural type), parse(serialize(parse(d))) succeeds and yields the same
\* observable structure as parse(d).
C26_ReparseSameStructure ==
    /\ Len(ret) >= 3 => ret[3].ok
    /\ Len(ret) = 4 => Observable(ret[4].v) = Observable(ret[2].v)

=========================================================================
